---------------------------- MODULE Spec2Model ----------------------------
(***************************************************************************)
(* Authentication core of the Next-Step backend: the users table, the      *)
(* request handlers of app/routers/auth.py that read and write it, the     *)
(* federated find-link-create of app/services/google_auth.py and the token *)
(* pair of app/services/auth.py.                                           *)
(*                                                                         *)
(* Every request runs in a session of its own (app/database.py get_db).    *)
(* A handler's awaits on the database are the points where another request *)
(* may run, so a handler is one action per database round trip; a commit   *)
(* is atomic and is where the table's UNIQUE constraints are enforced.     *)
(***************************************************************************)
EXTENDS Integers, Sequences, FiniteSets, TLC

\* ---------------------------------------------------------------- bounds
NumProcs == 2          \* requests that may be in flight at once
MaxRequests == 3       \* requests started in one behaviour
MaxAdvances == 3       \* clock advances in one behaviour of the token spec
TicksPerSecond == 2    \* clock resolution: ticks in one second

\* ------------------------------------------------------- program constants
ACCESS_TOKEN_EXPIRE_MINUTES == 1440
HTTP_201_CREATED == 201
HTTP_400_BAD_REQUEST == 400
HTTP_401_UNAUTHORIZED == 401
HTTP_403_FORBIDDEN == 403
HTTP_404_NOT_FOUND == 404

\* ------------------------------------------------------------ input domains
None == "None"
Procs == 1..NumProcs
\* Two addresses that differ only in the case of the local part, which
\* EmailStr keeps as it was typed.
Emails == {"a@x.edu", "A@x.edu"}
Passwords == {"pw1", "pw2"}
Salts == {"s1"}
GoogleIds == {"g1", "g2"}
UserRole == {"ADMIN", "TEACHER", "STUDENT"}

\* The Google accounts: the name and the picture of each. The second has no
\* "name" in its idinfo, which verify_google_token reads as "".
GoogleName(g) == IF g = "g1" THEN "Gee" ELSE ""
GooglePicture(g) == IF g = "g1" THEN "pic1" ELSE "pic2"

\* What verify_google_token returns for a token Google accepts: the account
\* under any of the emails, with its picture or without one.
GoogleData ==
    UNION {[google_id : {g}, email : Emails, name : {GoogleName(g)},
            avatar : {None, GooglePicture(g)}] : g \in GoogleIds}

\* The messages of the GoogleAuthError verify_google_token raises.
GoogleAuthErrors == {"Invalid token issuer", "Invalid token: Token expired"}

\* The bodies POST /register accepts (UserCreate).
UserCreate ==
    [name : {"Ann"}, email : Emails, password : {"pw1"},
     department : {None}, role : {"STUDENT", "ADMIN"}]

\* The bodies POST /login accepts (LoginRequest).
LoginRequest == [email : Emails, password : Passwords]

VARIABLES
    users,      \* the users table: id -> row
    nextId,     \* the next value of the users.id sequence
    pc,         \* per request slot: where its handler stands
    req,        \* per request slot: the request it serves
    loc,        \* per request slot: the handler's local `user`
    resp,       \* per request slot: the response sent
    branch,     \* per request slot: the return statement the handler took
    pre,        \* per request slot: the users table when the request began
    prev,       \* the last request that was answered and left its slot
    nreq,       \* requests started so far
    now,        \* the clock, in ticks
    issued,     \* the last create_access_token call and its result
    decoded,    \* the last decode_token call and its result
    advances,   \* clock advances so far
    held,       \* the tokens the client holds, each with the user it names
    schedules,  \* the schedules table: id -> row
    documents,  \* the documents table: id -> row
    polls,      \* the polls table: id -> row
    poll_votes, \* the poll_votes table: id -> row
    notifications, \* the notifications table: id -> row
    activities, \* the activities table, in the order of insertion
    sequences   \* per table: the next value of its id sequence

vars == <<users, nextId, pc, req, loc, resp, branch, pre, prev, nreq,
          now, issued, decoded, advances, held, schedules, documents, polls,
          poll_votes, notifications, activities, sequences>>
dbVars == <<users, nextId>>
procVars == <<pc, req, loc, resp, branch, pre, prev, nreq>>
tokenVars == <<issued, decoded, advances>>
contentVars == <<schedules, documents, polls, poll_votes, notifications,
                 activities, sequences>>


\* ------------------------------------------------------------- optionals
\* A Python value that may be None: <<>> is None, <<v>> is the value v.
NoneValue == <<>>
Some(v) == <<v>>
IsNone(o) == o = <<>>
Get(o) == o[1]

\* ---------------------------------------------------------------- strings
DigitChars == <<"0", "1", "2", "3", "4", "5", "6", "7", "8", "9">>

\* str(n) for an integer n >= 0: its decimal digits, most significant first.
RECURSIVE Str(_)
Str(n) ==
    IF n < 10 THEN <<DigitChars[n + 1]>>
    ELSE Append(Str(n \div 10), DigitChars[(n % 10) + 1])

\* ------------------------------------------------------------ configuration
\* Settings.secret_key and Settings.algorithm, and a key that is not ours.
SecretKey == "secret_key"
OtherKey == "other_key"
Algorithm == "HS256"

\* The Settings object get_settings() returns: the fields the class declares.
settings ==
    [secret_key |-> SecretKey, algorithm |-> Algorithm,
     access_token_expire_minutes |-> ACCESS_TOKEN_EXPIRE_MINUTES,
     google_client_ids |-> <<"111-web.apps.googleusercontent.com",
                             "222-ios.apps.googleusercontent.com",
                             "333-android.apps.googleusercontent.com">>]

\* timedelta(minutes = m), in ticks.
Minutes(m) == m * 60 * TicksPerSecond

\* -------------------------------------------------------------- python-jose
\* The signature of a token: fixed by the key, the algorithm and the claims.
Sign(claims, key, algorithm) == <<key, algorithm, claims>>

\* timegm(d.utctimetuple()): a time in whole seconds, the fraction dropped.
Timegm(t) == t \div TicksPerSecond

\* jwt.encode: a datetime under "exp" becomes whole seconds, then the claims
\* are signed.
JwtEncode(claims, key, algorithm) ==
    LET c == [k \in DOMAIN claims |->
                 IF k = "exp" THEN Timegm(claims[k]) ELSE claims[k]]
    IN  [wellformed |-> TRUE, alg |-> algorithm, claims |-> c,
         sig |-> Sign(c, key, algorithm)]

\* jose's _validate_exp: ExpiredSignatureError when exp < now, both in whole
\* seconds.
JwtExpiredAtExp(exp, t) == exp <= Timegm(t)
JwtExpired(exp, t) == exp < Timegm(t)

\* jwt.decode raises a JWTError: the token does not parse, names another
\* algorithm, carries a signature the key does not give, or has expired.
JwtDecodeRaisesUnverified(token, key, algorithms, t) ==
    \/ ~token.wellformed
    \/ "exp" \in DOMAIN token.claims /\ JwtExpired(token.claims.exp, t)
JwtDecodeRaises(token, key, algorithms, t) ==
    \/ ~token.wellformed
    \/ token.alg \notin algorithms
    \/ token.sig # Sign(token.claims, key, token.alg)
    \/ "exp" \in DOMAIN token.claims /\ JwtExpired(token.claims.exp, t)

\* The class of the exception jwt.decode raises, None when it returns: an
\* expired token that is otherwise good raises ExpiredSignatureError, every
\* other failure a plain JWTError.
JwtDecodeError(token, key, algorithms, t) ==
    IF ~JwtDecodeRaises(token, key, algorithms, t) THEN None
    ELSE IF /\ token.wellformed
            /\ token.alg \in algorithms
            /\ token.sig = Sign(token.claims, key, token.alg)
    THEN "ExpiredSignatureError"
    ELSE "JWTError"

\* jose's exception classes: what `except JWTError` catches.
JWTError == {"JWTError", "ExpiredSignatureError", "JWTClaimsError"}

\* ---------------------------------------------------- app/services/auth.py
\* `if expires_delta:` a timedelta is true unless it is None or zero.
Truthy(expires_delta) == ~IsNone(expires_delta) /\ Get(expires_delta) # 0

\* The `expire` create_access_token computes at time t.
Expire(expires_delta, t) ==
    IF Truthy(expires_delta) THEN t + Get(expires_delta)
    ELSE t + Minutes(ACCESS_TOKEN_EXPIRE_MINUTES)

\* create_access_token(data, expires_delta) called at time t.
create_access_token(data, expires_delta, t) ==
    LET to_encode == [k \in DOMAIN data \cup {"exp"} |->
                         IF k = "exp" THEN Expire(expires_delta, t)
                         ELSE data[k]]
    IN  JwtEncode(to_encode, SecretKey, Algorithm)

\* decode_token(token) called at time t: the payload, or None.
decode_token(token, t) ==
    IF JwtDecodeRaises(token, SecretKey, {Algorithm}, t) THEN NoneValue
    ELSE Some(token.claims)

\* The exception that leaves decode_token(token) called at time t, None when
\* it returns: whatever jwt.decode raised that `except JWTError` lets pass.
decode_token_raises(token, t) ==
    LET e == JwtDecodeError(token, SecretKey, {Algorithm}, t)
    IN  IF e \in JWTError THEN None ELSE e

\* ----------------------------------------------------- token specification
\* The `data` and `expires_delta` arguments create_access_token is tried on.
TokenData ==
    {[sub |-> Str(1)], [sub |-> Str(12)], [sub |-> Str(7), exp |-> 0],
     [name |-> "Ann"]}
Deltas ==
    {NoneValue} \cup {Some(d) : d \in (0 - TicksPerSecond)..(TicksPerSecond + 1)}
                \cup {Some(Minutes(ACCESS_TOKEN_EXPIRE_MINUTES))}

NoCall == [called |-> FALSE]

\* What a holder of a token can present: the token, the same claims signed
\* with another key, or text that is no token.
Presentable(token) ==
    {token,
     [token EXCEPT !.sig = Sign(token.claims, OtherKey, token.alg)],
     [token EXCEPT !.wellformed = FALSE]}

\* A call create_access_token(data, expires_delta).
CreateAccessToken(data, expires_delta) ==
    /\ issued' = [called |-> TRUE, data |-> data, delta |-> expires_delta,
                  at |-> now, expire |-> Expire(expires_delta, now),
                  token |-> create_access_token(data, expires_delta, now)]
    /\ decoded' = NoCall
    /\ UNCHANGED <<dbVars, procVars, held, contentVars, now, advances>>

\* A call decode_token(token) on something made from the token last issued.
DecodeToken(token) ==
    /\ decoded' = [called |-> TRUE, token |-> token, at |-> now,
                   payload |-> decode_token(token, now),
                   raised |-> decode_token_raises(token, now)]
    /\ UNCHANGED <<dbVars, procVars, held, contentVars, now, issued, advances>>

\* Time passes: a tick, a second, or the default lifetime of a token.
Advance(d) ==
    /\ advances < MaxAdvances
    /\ now' = now + d
    /\ advances' = advances + 1
    /\ UNCHANGED <<dbVars, procVars, held, contentVars, issued, decoded>>

TokenNext ==
    \/ \E data \in TokenData, delta \in Deltas : CreateAccessToken(data, delta)
    \/ issued.called /\ \E token \in Presentable(issued.token) : DecodeToken(token)
    \/ \E d \in {1, TicksPerSecond, Minutes(ACCESS_TOKEN_EXPIRE_MINUTES)} : Advance(d)

\* ------------------------------------------------------- the users table
\* Python's `not s` for an optional string: None and "" are false.
Falsy(s) == s = None \/ s = ""

\* select(User).where(User.google_id == g), .where(User.email == e): the ids
\* of the rows found. SQL's = never matches a NULL google_id.
ByGoogleIdWrongColumn(us, g) == {i \in DOMAIN us : us[i].email = g}
ByGoogleId(us, g) == {i \in DOMAIN us : us[i].google_id # None /\ us[i].google_id = g}
ByEmail(us, e) == {i \in DOMAIN us : us[i].email = e}

\* The UNIQUE constraints of the users table (email, google_id): a NULL
\* google_id conflicts with nothing.
UniqueGoogleIdOnly(us) ==
    \A i, j \in DOMAIN us :
        i # j => us[i].google_id = None \/ us[i].google_id # us[j].google_id
UniqueEmailOnly(us) ==
    \A i, j \in DOMAIN us : i # j => us[i].email # us[j].email
Unique(us) ==
    \A i, j \in DOMAIN us :
        i # j => /\ us[i].email # us[j].email
                 /\ us[i].google_id = None \/ us[i].google_id # us[j].google_id

\* ------------------------------------------------------------- passwords
\* pwd_context.hash with a fresh salt; the hash carries the salt.
HashWith(password, salt) == <<"argon2", salt, password>>
hash_password(password, salt) == Some(HashWith(password, salt))

\* pwd_context.verify: hash the plain text with the salt of the stored hash
\* and compare.
verify_password(plain_password, hashed_password) ==
    HashWith(plain_password, hashed_password[2]) = hashed_password

\* -------------------------------------------------------------- responses
NoResponse == [kind |-> "none"]

\* raise HTTPException(status_code, detail): FastAPI answers with them.
HTTPException(status_code, detail) ==
    [kind |-> "HTTPException", status_code |-> status_code, detail |-> detail]

\* Any other exception leaves the handler: get_db rolls back and re-raises,
\* and the server answers 500 without a body of the handler's.
Unhandled(exception) ==
    [kind |-> "unhandled", status_code |-> 500,
     detail |-> "Internal Server Error", exception |-> exception]

\* A handler's return value, sent with the route's status code (200 unless
\* the route names another).
Returned(status_code, body) ==
    [kind |-> "returned", status_code |-> status_code, body |-> body]

\* UserResponse.from_user: the id as a string, no hash, no google_id.
UserResponse(user) ==
    [id |-> Str(user.id), name |-> user.name, email |-> user.email,
     role |-> user.role, avatar |-> user.avatar,
     department |-> user.department]

\* The end of login and google_auth: a token for the user's id and the user.
TokenAndUser(user, t) ==
    Returned(200,
             [token |-> create_access_token([sub |-> Str(user.id)], NoneValue, t),
              user |-> UserResponse(user)])

\* ------------------------------------------------------------------ init
\* The tables beside users whose ids come from a sequence.
Tables == {"schedules", "documents", "polls", "poll_votes", "notifications"}

NoRequest == [op |-> "none"]
NoRecord == [req |-> NoRequest, resp |-> NoResponse, branch |-> "none", pre |-> <<>>]

Init ==
    /\ users = <<>>
    /\ nextId = 1
    /\ pc = [p \in Procs |-> "idle"]
    /\ req = [p \in Procs |-> NoRequest]
    /\ loc = [p \in Procs |-> NoneValue]
    /\ resp = [p \in Procs |-> NoResponse]
    /\ branch = [p \in Procs |-> "none"]
    /\ pre = [p \in Procs |-> <<>>]
    /\ prev = NoRecord
    /\ nreq = 0
    /\ now = 0
    /\ issued = NoCall
    /\ decoded = NoCall
    /\ advances = 0
    /\ held = {}
    /\ schedules = <<>>
    /\ documents = <<>>
    /\ polls = <<>>
    /\ poll_votes = <<>>
    /\ notifications = <<>>
    /\ activities = <<>>
    /\ sequences = [t \in Tables |-> 1]

\* A request arrives and is given the first free slot, p. `keep` says
\* whether the table is remembered as it was when the request began.
Begin(p, request, keep) ==
    /\ pc[p] = "idle"
    /\ \A q \in Procs : q < p => pc[q] # "idle"
    /\ nreq < MaxRequests
    /\ nreq' = nreq + 1
    /\ req' = [req EXCEPT ![p] = request]
    /\ pre' = [pre EXCEPT ![p] = IF keep THEN users ELSE <<>>]

\* The handler of slot p ends with response r, having taken return b.
End(p, r, b) ==
    /\ pc' = [pc EXCEPT ![p] = "done"]
    /\ resp' = [resp EXCEPT ![p] = r]
    /\ branch' = [branch EXCEPT ![p] = b]

\* The handler of slot p goes on to step s.
Goto(p, s) ==
    /\ pc' = [pc EXCEPT ![p] = s]
    /\ UNCHANGED <<resp, branch>>

\* ------------------------------------------ app/services/google_auth.py
\* What Google's verification makes of an idToken: the user info of a token
\* it accepts, or the message of the GoogleAuthError raised.
Verified == [ok : {TRUE}, data : GoogleData] \cup [ok : {FALSE}, error : GoogleAuthErrors]

\* The idTokens a client may send: made out for one of the configured client
\* ids or for another application, by Google or by somebody else, signed by
\* Google's keys or not, expired or not.
IdTokens ==
    [aud : {settings.google_client_ids[k] : k \in 1..Len(settings.google_client_ids)}
             \cup {"999-other.apps.googleusercontent.com"},
     iss : {"https://accounts.google.com", "https://evil.example"},
     signed : BOOLEAN, expired : BOOLEAN,
     sub : {"g1"}, email : Emails, name : {"Gee"}, picture : {None}]

\* id_token.verify_oauth2_token(token, request, audience): the idinfo, or
\* the ValueError raised.
verify_oauth2_token(token, audience) ==
    IF ~token.signed
    THEN [raised |-> "ValueError", message |-> "Could not verify token signature."]
    ELSE IF token.expired
    THEN [raised |-> "ValueError", message |-> "Token expired"]
    ELSE IF token.aud # audience
    THEN [raised |-> "ValueError", message |-> "Token has wrong audience"]
    ELSE [raised |-> None, idinfo |-> token]

\* verify_google_token(token) under configuration `config`: the user info, the
\* GoogleAuthError raised, or any other exception that leaves it. Reading a
\* field the Settings class does not declare raises AttributeError, which
\* `except ValueError` does not catch.
verify_google_token(config, token) ==
    IF "google_client_id" \notin DOMAIN config
    THEN [ok |-> FALSE, raised |-> "AttributeError"]
    ELSE LET r == verify_oauth2_token(token, config.google_client_id)
         IN  IF r.raised = "ValueError"
             THEN [ok |-> FALSE, error |-> <<"Invalid token: ", r.message>>]
             ELSE IF r.idinfo.iss \notin {"accounts.google.com",
                                         "https://accounts.google.com"}
             THEN [ok |-> FALSE, error |-> "Invalid token issuer"]
             ELSE [ok |-> TRUE,
                   data |-> [google_id |-> r.idinfo.sub, email |-> r.idinfo.email,
                             name |-> r.idinfo.name, avatar |-> r.idinfo.picture]]

\* Scenario 3: the row of a new Google user.
NewGoogleUserSwapped(id, google_data) ==
    [id |-> id, email |-> google_data.google_id, name |-> google_data.name,
     google_id |-> google_data.email, avatar |-> google_data.avatar,
     role |-> "STUDENT", hashed_password |-> NoneValue, department |-> None]
NewGoogleUserUnlinked(id, google_data) ==
    [id |-> id, email |-> google_data.email, name |-> google_data.name,
     google_id |-> None, avatar |-> google_data.avatar,
     role |-> "STUDENT", hashed_password |-> NoneValue, department |-> None]
NewGoogleUserAdmin(id, google_data) ==
    [id |-> id, email |-> google_data.email, name |-> google_data.name,
     google_id |-> google_data.google_id, avatar |-> google_data.avatar,
     role |-> "ADMIN", hashed_password |-> NoneValue, department |-> None]
NewGoogleUser(id, google_data) ==
    [id |-> id, email |-> google_data.email, name |-> google_data.name,
     google_id |-> google_data.google_id, avatar |-> google_data.avatar,
     role |-> "STUDENT", hashed_password |-> NoneValue, department |-> None]

\* Scenario 2: `user` (the row as it was read) after the assignments that
\* link the Google account.
LinkedAlwaysAvatar(user, google_data) ==
    [user EXCEPT !.google_id = google_data.google_id,
                 !.avatar = IF ~Falsy(google_data.avatar)
                            THEN google_data.avatar ELSE @]
Linked(user, google_data) ==
    [user EXCEPT !.google_id = google_data.google_id,
                 !.avatar = IF Falsy(@) /\ ~Falsy(google_data.avatar)
                            THEN google_data.avatar ELSE @]

\* The UPDATE a commit flushes for a row read as `old` and changed to `new`:
\* it sets the columns that changed and leaves the others as they are in the
\* table now.
Updated(row, old, new) ==
    [c \in DOMAIN row |-> IF new[c] # old[c] THEN new[c] ELSE row[c]]

\* POST /api/v1/auth/google, to the end of scenario 1: the token is verified
\* and the user looked up by google_id.
GoogleAuth(p, v, keep) ==
    /\ Begin(p, [op |-> "google_auth", idToken |-> v], keep)
    /\ UNCHANGED <<dbVars, loc, prev, now, tokenVars, held, contentVars>>
    /\ IF ~v.ok
       THEN End(p, HTTPException(HTTP_401_UNAUTHORIZED, v.error), "verify_failed")
       ELSE LET found == ByGoogleId(users, v.data.google_id)
            IN  IF Cardinality(found) > 1
                THEN End(p, Unhandled("MultipleResultsFound"), "error")
                ELSE IF found # {}
                THEN End(p, TokenAndUser(users[CHOOSE i \in found : TRUE], now),
                         "found_by_google_id")
                ELSE Goto(p, "by_email")

\* POST /api/v1/auth/google with the idToken `token`: the token goes through
\* verify_google_token; an exception of it that is no GoogleAuthError leaves
\* the route unhandled. The request keeps the token beside what the
\* verification made of it.
GoogleAuthRequest(p, token, keep) ==
    LET v == verify_google_token(settings, token) @@ [token |-> token]
    IN  IF "raised" \in DOMAIN v
        THEN /\ Begin(p, [op |-> "google_auth", idToken |-> v], keep)
             /\ UNCHANGED <<dbVars, loc, prev, now, tokenVars, held, contentVars>>
             /\ End(p, Unhandled(v.raised), "error")
        ELSE GoogleAuth(p, v, keep)

\* get_or_create_google_user, the lookup by email.
GoogleByEmail(p) ==
    /\ pc[p] = "by_email"
    /\ UNCHANGED <<dbVars, req, pre, prev, nreq, now, tokenVars, held, contentVars>>
    /\ LET found == ByEmail(users, req[p].idToken.data.email)
       IN  IF Cardinality(found) > 1
           THEN End(p, Unhandled("MultipleResultsFound"), "error")
                /\ UNCHANGED loc
           ELSE IF found # {}
           THEN /\ loc' = [loc EXCEPT ![p] = Some(users[CHOOSE i \in found : TRUE])]
                /\ Goto(p, "link")
           ELSE Goto(p, "create") /\ UNCHANGED loc

\* get_or_create_google_user, scenario 2: link, commit, refresh, return.
GoogleLink(p) ==
    /\ pc[p] = "link"
    /\ UNCHANGED <<nextId, req, loc, pre, prev, nreq, now, tokenVars, held, contentVars>>
    /\ LET user == Get(loc[p])
           new == Linked(user, req[p].idToken.data)
           table == [users EXCEPT ![user.id] = Updated(@, user, new)]
       IN  IF Unique(table)
           THEN /\ users' = table
                /\ End(p, TokenAndUser(table[user.id], now), "linked")
           ELSE /\ UNCHANGED users
                /\ End(p, Unhandled("IntegrityError"), "conflict")

\* get_or_create_google_user, scenario 3: add, commit, refresh, return.
GoogleCreate(p) ==
    /\ pc[p] = "create"
    /\ UNCHANGED <<req, loc, pre, prev, nreq, now, tokenVars, held, contentVars>>
    /\ nextId' = nextId + 1
    /\ LET user == NewGoogleUser(nextId, req[p].idToken.data)
           table == users @@ (nextId :> user)
       IN  IF Unique(table)
           THEN /\ users' = table
                /\ End(p, TokenAndUser(user, now), "created")
           ELSE /\ UNCHANGED users
                /\ End(p, Unhandled("IntegrityError"), "conflict")

\* ------------------------------------------------- app/routers/auth.py
\* POST /api/v1/auth/register, the check that the email is not taken.
Register(p, user_data, keep) ==
    /\ Begin(p, [op |-> "register", user_data |-> user_data], keep)
    /\ UNCHANGED <<dbVars, loc, prev, now, tokenVars, held, contentVars>>
    /\ LET existing == ByEmail(users, user_data.email)
       IN  IF Cardinality(existing) > 1
           THEN End(p, Unhandled("MultipleResultsFound"), "error")
           ELSE IF existing # {}
           THEN End(p, HTTPException(HTTP_400_BAD_REQUEST, "Email already registered"),
                    "email_taken")
           ELSE Goto(p, "insert")

\* The row register builds.
NewUserAlwaysStudent(id, user_data, salt) ==
    [id |-> id, email |-> user_data.email, name |-> user_data.name,
     hashed_password |-> hash_password(user_data.password, salt),
     department |-> user_data.department, role |-> "STUDENT",
     avatar |-> None, google_id |-> None]
NewUser(id, user_data, salt) ==
    [id |-> id, email |-> user_data.email, name |-> user_data.name,
     hashed_password |-> hash_password(user_data.password, salt),
     department |-> user_data.department, role |-> user_data.role,
     avatar |-> None, google_id |-> None]

\* register: add, commit, refresh, return.
RegisterInsert(p, salt) ==
    /\ pc[p] = "insert"
    /\ UNCHANGED <<req, loc, pre, prev, nreq, now, tokenVars, held, contentVars>>
    /\ nextId' = nextId + 1
    /\ LET user == NewUser(nextId, req[p].user_data, salt)
           table == users @@ (nextId :> user)
       IN  IF Unique(table)
           THEN /\ users' = table
                /\ End(p, Returned(HTTP_201_CREATED, UserResponse(user)), "registered")
           ELSE /\ UNCHANGED users
                /\ End(p, Unhandled("IntegrityError"), "conflict")

\* The JSON bodies a client posts to /register: with a role, or without.
RegisterBodies ==
    [name : {"Ann"}, email : {"a@x.edu"}, password : {"pw1"}]
    \cup [name : {"Ann"}, email : {"a@x.edu"}, password : {"pw1"},
          role : UserRole]

\* The UserCreate pydantic makes of a body: a field the body leaves out
\* takes its default.
UserCreateOf(body) ==
    [name |-> body.name, email |-> body.email, password |-> body.password,
     department |-> IF "department" \in DOMAIN body THEN body.department
                    ELSE None,
     role |-> IF "role" \in DOMAIN body THEN body.role ELSE "STUDENT"]

\* POST /api/v1/auth/register with the JSON body `body`; the request keeps
\* the body beside the UserCreate made of it. The route has no dependency
\* but the session: no token is read.
RegisterRequest(p, body, keep) ==
    Register(p, UserCreateOf(body) @@ [body |-> body], keep)

\* authenticate_user: the return statement taken, and the user returned.
authenticate_user(us, email, password) ==
    LET found == ByEmail(us, email)
        user == us[CHOOSE i \in found : TRUE]
    IN  IF found = {} THEN [at |-> "no_user", user |-> NoneValue]
        ELSE IF IsNone(user.hashed_password)
        THEN [at |-> "no_password", user |-> NoneValue]
        ELSE IF ~verify_password(password, Get(user.hashed_password))
        THEN [at |-> "bad_password", user |-> NoneValue]
        ELSE [at |-> "authenticated", user |-> Some(user)]

\* What login answers when authenticate_user returned `user`.
LoginResponseLeaky(auth, t) ==
    IF auth.at = "no_user"
    THEN HTTPException(HTTP_401_UNAUTHORIZED, "User not found")
    ELSE IF IsNone(auth.user)
    THEN HTTPException(HTTP_401_UNAUTHORIZED, "Invalid email or password")
    ELSE TokenAndUser(Get(auth.user), t)
LoginResponse(auth, t) ==
    IF IsNone(auth.user)
    THEN HTTPException(HTTP_401_UNAUTHORIZED, "Invalid email or password")
    ELSE TokenAndUser(Get(auth.user), t)

\* POST /api/v1/auth/login: one read of the table, then the answer.
Login(p, request, keep) ==
    /\ Begin(p, [op |-> "login", request |-> request], keep)
    /\ UNCHANGED <<dbVars, loc, prev, now, tokenVars, held, contentVars>>
    /\ LET auth == authenticate_user(users, request.email, request.password)
       IN  End(p, LoginResponse(auth, now), auth.at)

\* --------------------------------------------------- app/dependencies.py
\* int(s) for a string s: its value when s is a run of decimal digits, a
\* ValueError otherwise.
IsDecimal(s) ==
    s # <<>> /\ \A i \in 1..Len(s) : \E d \in 1..10 : DigitChars[d] = s[i]
DigitValue(c) == (CHOOSE d \in 1..10 : DigitChars[d] = c) - 1
RECURSIVE int(_)
int(s) ==
    IF s = <<>> THEN 0
    ELSE int(SubSeq(s, 1, Len(s) - 1)) * 10 + DigitValue(s[Len(s)])

\* What a dependency gives the route: the value it returns, or the exception
\* it raises (an HTTPException or an Unhandled one).
Value(v) == [kind |-> "value", value |-> v]

\* get_current_user for the bearer token `token`, on table `us` at time t.
get_current_user_unchecked(us, token, t) ==
    IF ~token.wellformed \/ "sub" \notin DOMAIN token.claims
    THEN HTTPException(HTTP_401_UNAUTHORIZED, "Invalid or expired token")
    ELSE IF ~IsDecimal(token.claims.sub)
    THEN Unhandled("ValueError")
    ELSE IF int(token.claims.sub) \notin DOMAIN us
    THEN HTTPException(HTTP_401_UNAUTHORIZED, "User not found")
    ELSE Value(us[int(token.claims.sub)])
get_current_user_revoking(us, token, t) ==
    LET payload == decode_token(token, t)
    IN  IF IsNone(payload)
        THEN HTTPException(HTTP_401_UNAUTHORIZED, "Invalid or expired token")
        ELSE IF "sub" \notin DOMAIN Get(payload)
        THEN HTTPException(HTTP_401_UNAUTHORIZED, "Invalid token payload")
        ELSE IF ~IsDecimal(Get(payload).sub)
        THEN Unhandled("ValueError")
        ELSE IF int(Get(payload).sub) \notin DOMAIN us
        THEN HTTPException(HTTP_401_UNAUTHORIZED, "User not found")
        ELSE IF us[int(Get(payload).sub)].name = "Bea"
        THEN HTTPException(HTTP_401_UNAUTHORIZED, "Token revoked")
        ELSE Value(us[int(Get(payload).sub)])
get_current_user_forbidding(us, token, t) ==
    LET payload == decode_token(token, t)
    IN  IF IsNone(payload)
        THEN HTTPException(HTTP_401_UNAUTHORIZED, "Invalid or expired token")
        ELSE IF "sub" \notin DOMAIN Get(payload)
        THEN HTTPException(HTTP_401_UNAUTHORIZED, "Invalid token payload")
        ELSE IF ~IsDecimal(Get(payload).sub)
        THEN Unhandled("ValueError")
        ELSE IF int(Get(payload).sub) \notin DOMAIN us
        THEN HTTPException(HTTP_403_FORBIDDEN, "User not found")
        ELSE Value(us[int(Get(payload).sub)])
get_current_user(us, token, t) ==
    LET payload == decode_token(token, t)
    IN  IF IsNone(payload)
        THEN HTTPException(HTTP_401_UNAUTHORIZED, "Invalid or expired token")
        ELSE IF "sub" \notin DOMAIN Get(payload)
        THEN HTTPException(HTTP_401_UNAUTHORIZED, "Invalid token payload")
        ELSE IF ~IsDecimal(Get(payload).sub)
        THEN Unhandled("ValueError")
        ELSE IF int(Get(payload).sub) \notin DOMAIN us
        THEN HTTPException(HTTP_401_UNAUTHORIZED, "User not found")
        ELSE Value(us[int(Get(payload).sub)])

\* require_admin, given the user get_current_user returned.
require_admin_but_teachers(current_user) ==
    IF current_user.role = "TEACHER"
    THEN HTTPException(HTTP_403_FORBIDDEN, "Admin access required")
    ELSE Value(current_user)
require_admin_unchecked(current_user) == Value(current_user)
require_admin(current_user) ==
    IF current_user.role # "ADMIN"
    THEN HTTPException(HTTP_403_FORBIDDEN, "Admin access required")
    ELSE Value(current_user)

\* The role_checker that require_roles(*allowed_roles) makes, given the user
\* get_current_user returned; allowed_roles is the tuple of the roles.
role_checker_first_only(allowed_roles, current_user) ==
    IF current_user.role # allowed_roles[1]
    THEN HTTPException(HTTP_403_FORBIDDEN, <<"Required role: ", allowed_roles>>)
    ELSE Value(current_user)
role_checker(allowed_roles, current_user) ==
    IF \A i \in 1..Len(allowed_roles) : current_user.role # allowed_roles[i]
    THEN HTTPException(HTTP_403_FORBIDDEN, <<"Required role: ", allowed_roles>>)
    ELSE Value(current_user)

\* A route that depends on `o`, the outcome of its dependencies: it runs with
\* the user when there is one, and the exception is the answer otherwise.
Gate(p, o, s) ==
    IF o.kind = "value"
    THEN /\ loc' = [loc EXCEPT ![p] = Some(o.value)]
         /\ s
    ELSE /\ UNCHANGED loc
         /\ End(p, o, "raised")

\* GET /api/v1/auth/me with the header Authorization: Bearer <token>.
GetMe(p, token, keep) ==
    /\ Begin(p, [op |-> "get_me", token |-> token], keep)
    /\ UNCHANGED <<dbVars, prev, now, tokenVars, held, contentVars>>
    /\ LET o == get_current_user(users, token, now)
       IN  Gate(p, o, End(p, Returned(200, UserResponse(o.value)), "returned"))

\* GET /api/v1/users, admin only: the dependencies (require_admin runs on the
\* user get_current_user returned, and not at all when that raised), then
\* the query.
ListUsersPromoting(p, token, keep) ==
    /\ Begin(p, [op |-> "list_users", token |-> token], keep)
    /\ UNCHANGED <<nextId, prev, now, tokenVars, held, contentVars>>
    /\ LET current_user == get_current_user(users, token, now)
           o == IF current_user.kind = "value"
                THEN require_admin(current_user.value) ELSE current_user
       IN  /\ users' = IF current_user.kind = "value" /\ o.kind # "value"
                       THEN [users EXCEPT ![current_user.value.id].role = "ADMIN"]
                       ELSE users
           /\ Gate(p, o, Goto(p, "list"))
ListUsers(p, token, keep) ==
    /\ Begin(p, [op |-> "list_users", token |-> token], keep)
    /\ UNCHANGED <<dbVars, prev, now, tokenVars, held, contentVars>>
    /\ LET current_user == get_current_user(users, token, now)
           o == IF current_user.kind = "value"
                THEN require_admin(current_user.value) ELSE current_user
       IN  Gate(p, o, Goto(p, "list"))

ListUsersQuery(p) ==
    /\ pc[p] = "list"
    /\ UNCHANGED <<dbVars, req, loc, pre, prev, nreq, now, tokenVars, held, contentVars>>
    /\ End(p, Returned(200, {UserResponse(users[i]) : i \in DOMAIN users}), "returned")

\* The roles a route may name in Depends(require_roles(...)).
AllowedRoles == {<<"ADMIN">>, <<"ADMIN", "TEACHER">>, <<"TEACHER", "STUDENT">>}

\* A route behind Depends(require_roles(*allowed_roles)), as in the example
\* of require_roles: GET /teachers-only, whose body is `pass`.
TeachersOnly(p, allowed_roles, token, keep) ==
    /\ Begin(p, [op |-> "teachers_only", allowed_roles |-> allowed_roles,
                 token |-> token], keep)
    /\ UNCHANGED <<dbVars, prev, now, tokenVars, held, contentVars>>
    /\ LET current_user == get_current_user(users, token, now)
           o == IF current_user.kind = "value"
                THEN role_checker(allowed_roles, current_user.value)
                ELSE current_user
       IN  Gate(p, o, End(p, Returned(200, None), "returned"))

\* --------------------------------------------------- app/routers/users.py
\* The bodies PUT /api/v1/users/profile accepts (UserUpdate): each field is
\* given or left out (None).
UserUpdate == [name : {None, "Bea"}, department : {None, "Math"}]

\* update_profile's assignments to current_user: a field is assigned when
\* the body gives it.
ProfileAssignedAlways(current_user, updates) ==
    [current_user EXCEPT !.name = updates.name,
                         !.department = updates.department]
ProfileAssigned(current_user, updates) ==
    [current_user EXCEPT !.name = IF updates.name # None THEN updates.name ELSE @,
                         !.department = IF updates.department # None
                                        THEN updates.department ELSE @]

\* PUT /api/v1/users/profile, the dependency: the current user is read.
UpdateProfile(p, updates, token, keep) ==
    /\ Begin(p, [op |-> "update_profile", updates |-> updates, token |-> token],
             keep)
    /\ UNCHANGED <<dbVars, prev, now, tokenVars, held, contentVars>>
    /\ LET o == get_current_user(users, token, now)
       IN  Gate(p, o, Goto(p, "update"))

\* update_profile: the assignments, commit, refresh, return.
UpdateProfileCommit(p) ==
    /\ pc[p] = "update"
    /\ UNCHANGED <<nextId, req, loc, pre, prev, nreq, now, tokenVars, held, contentVars>>
    /\ LET current_user == Get(loc[p])
           new == ProfileAssigned(current_user, req[p].updates)
           table == [users EXCEPT
                        ![current_user.id] = Updated(@, current_user, new)]
       IN  /\ users' = table
           /\ End(p, Returned(200, UserResponse(table[current_user.id])),
                  "returned")

\* The users table after two registrations: an admin, then a student.
SeededUsers ==
    LET body(email, role) ==
            [name |-> "Ann", email |-> email, password |-> "pw1",
             department |-> None, role |-> role]
    IN  (1 :> NewUser(1, body("a@x.edu", "ADMIN"), "s1"))
        @@ (2 :> NewUser(2, body("A@x.edu", "STUDENT"), "s1"))

\* The state once those two are registered and nothing else has happened.
SeededInit ==
    /\ users = SeededUsers
    /\ nextId = 3
    /\ pc = [p \in Procs |-> "idle"]
    /\ req = [p \in Procs |-> NoRequest]
    /\ loc = [p \in Procs |-> NoneValue]
    /\ resp = [p \in Procs |-> NoResponse]
    /\ branch = [p \in Procs |-> "none"]
    /\ pre = [p \in Procs |-> <<>>]
    /\ prev = NoRecord
    /\ nreq = 0
    /\ now = 0
    /\ issued = NoCall
    /\ decoded = NoCall
    /\ advances = 0
    /\ held = {}
    /\ schedules = <<>>
    /\ documents = <<>>
    /\ polls = <<>>
    /\ poll_votes = <<>>
    /\ notifications = <<>>
    /\ activities = <<>>
    /\ sequences = [t \in Tables |-> 1]

\* ----------------------------------------------- app/services/activity.py
\* log_activity: the row added to the activities table.
Activity(title, author, action_type, entity_type, entity_id) ==
    [title |-> title, author |-> author, action_type |-> action_type,
     entity_type |-> entity_type, entity_id |-> entity_id]

\* A table with `row` added under the next id of its sequence.
Inserted(table, id, row) == table @@ (id :> row)

\* The sequences after table `t` drew an id.
Drawn(t) == [sequences EXCEPT ![t] = @ + 1]

\* --------------------------------------------------- app/routers/polls.py
\* The bodies POST /api/v1/polls accepts (PollCreate): two options, and an
\* expiry that is left out or given without a time zone.
PollCreate ==
    [title : {"Lunch"}, description : {None},
     options : {<<[id |-> 1, text |-> "yes"], [id |-> 2, text |-> "no"]>>},
     expires_at : {None, "2024-12-31T23:59:59"}]

\* The poll ids of the paths /{poll_id}/vote and /{poll_id}/close, and the
\* bodies of a vote (VoteRequest).
PollIds == {1}
VoteRequest == [option_id : {1, 3}]

\* The row create_poll builds.
NewPoll(id, data, current_user) ==
    [id |-> id, title |-> data.title, description |-> data.description,
     options |-> [options |-> data.options], expires_at |-> data.expires_at,
     created_by |-> current_user.id, is_active |-> TRUE]

\* The rows of poll_votes `vs` for poll `poll_id`; those of them by `user_id`.
VotesOn(vs, poll_id) == {v \in DOMAIN vs : vs[v].poll_id = poll_id}
VotesBy(vs, poll_id, user_id) ==
    {v \in VotesOn(vs, poll_id) : vs[v].user_id = user_id}

\* build_poll_response: the poll with the votes counted per option.
PollResponse(poll, vs) ==
    [id |-> poll.id, title |-> poll.title, description |-> poll.description,
     options |-> [k \in DOMAIN poll.options.options |->
                     [id |-> poll.options.options[k].id,
                      text |-> poll.options.options[k].text,
                      votes |-> Cardinality(
                          {v \in VotesOn(vs, poll.id) :
                              vs[v].option_id = poll.options.options[k].id})]],
     isActive |-> poll.is_active,
     totalVotes |-> Cardinality(VotesOn(vs, poll.id)),
     expiresAt |-> poll.expires_at]

\* The constraint of poll_votes: UNIQUE (poll_id, user_id).
UniqueVoteUnconstrained(vs) == TRUE
UniqueVote(vs) ==
    \A v, w \in DOMAIN vs :
        (vs[v].poll_id = vs[w].poll_id /\ vs[v].user_id = vs[w].user_id)
            => v = w

\* POST /api/v1/polls, admin only: the dependencies.
CreatePoll(p, data, token, keep) ==
    /\ Begin(p, [op |-> "create_poll", data |-> data, token |-> token], keep)
    /\ UNCHANGED <<dbVars, prev, now, tokenVars, held, contentVars>>
    /\ LET current_user == get_current_user(users, token, now)
           o == IF current_user.kind = "value"
                THEN require_admin(current_user.value) ELSE current_user
       IN  Gate(p, o, Goto(p, "create_poll"))

\* create_poll: add, flush, log_activity, commit, refresh.
CreatePollCommit(p) ==
    /\ pc[p] = "create_poll"
    /\ LET current_user == Get(loc[p])
           poll == NewPoll(sequences.polls, req[p].data, current_user)
       IN  /\ polls' = Inserted(polls, poll.id, poll)
           /\ sequences' = Drawn("polls")
           /\ activities' = Append(activities,
                  Activity(<<"Poll Created: ", poll.title>>, current_user.name,
                           "create", "poll", poll.id))
           /\ loc' = [loc EXCEPT ![p] = Some(poll)]
    /\ Goto(p, "poll_response")
    /\ UNCHANGED <<dbVars, req, pre, prev, nreq, now, tokenVars, held,
                   schedules, documents, poll_votes, notifications>>

\* create_poll: build_poll_response, return.
CreatePollRespond(p) ==
    /\ pc[p] = "poll_response"
    /\ UNCHANGED <<dbVars, req, loc, pre, prev, nreq, now, tokenVars, held,
                   contentVars>>
    /\ End(p, Returned(HTTP_201_CREATED, PollResponse(Get(loc[p]), poll_votes)),
           "returned")

\* POST /api/v1/polls/{poll_id}/vote: the dependency.
VoteOnPoll(p, poll_id, vote, token, keep) ==
    /\ Begin(p, [op |-> "vote_on_poll", poll_id |-> poll_id, vote |-> vote,
                 token |-> token], keep)
    /\ UNCHANGED <<dbVars, prev, now, tokenVars, held, contentVars>>
    /\ LET o == get_current_user(users, token, now)
       IN  Gate(p, o, Goto(p, "vote_poll"))

\* vote_on_poll: the poll is read; it must exist, be active and not be
\* expired. An expires_at read from the DateTime column has no time zone,
\* and its comparison with datetime.now(timezone.utc) raises TypeError.
VoteOnPollSelect(p) ==
    /\ pc[p] = "vote_poll"
    /\ UNCHANGED <<dbVars, req, loc, pre, prev, nreq, now, tokenVars, held,
                   contentVars>>
    /\ IF req[p].poll_id \notin DOMAIN polls
       THEN End(p, HTTPException(HTTP_404_NOT_FOUND, "Poll not found"), "not_found")
       ELSE IF ~polls[req[p].poll_id].is_active
       THEN End(p, HTTPException(HTTP_400_BAD_REQUEST, "Poll is closed"), "closed")
       ELSE IF polls[req[p].poll_id].expires_at # None
       THEN End(p, Unhandled("TypeError"), "error")
       ELSE Goto(p, "vote_existing")

\* vote_on_poll: the user's vote on the poll is looked up, and the option
\* checked against the poll's.
VoteOnPollCheck(p) ==
    /\ pc[p] = "vote_existing"
    /\ UNCHANGED <<dbVars, req, loc, pre, prev, nreq, now, tokenVars, held,
                   contentVars>>
    /\ LET poll == polls[req[p].poll_id]
           valid_option_ids == {poll.options.options[k].id :
                                   k \in DOMAIN poll.options.options}
       IN  IF VotesBy(poll_votes, poll.id, Get(loc[p]).id) # {}
           THEN End(p, HTTPException(HTTP_400_BAD_REQUEST,
                                     "You have already voted on this poll"),
                    "already_voted")
           ELSE IF req[p].vote.option_id \notin valid_option_ids
           THEN End(p, HTTPException(HTTP_400_BAD_REQUEST, "Invalid option"),
                    "invalid_option")
           ELSE Goto(p, "vote_insert")

\* vote_on_poll: add, commit, return. The constraint refuses a second vote
\* of the user on the poll; the id drawn for it is lost.
VoteOnPollInsert(p) ==
    /\ pc[p] = "vote_insert"
    /\ sequences' = Drawn("poll_votes")
    /\ LET vote == [id |-> sequences.poll_votes, poll_id |-> req[p].poll_id,
                    user_id |-> Get(loc[p]).id,
                    option_id |-> req[p].vote.option_id]
           table == Inserted(poll_votes, vote.id, vote)
       IN  IF UniqueVote(table)
           THEN /\ poll_votes' = table
                /\ End(p, Returned(200, [message |-> "Vote recorded successfully"]),
                       "returned")
           ELSE /\ UNCHANGED poll_votes
                /\ End(p, Unhandled("IntegrityError"), "conflict")
    /\ UNCHANGED <<dbVars, req, loc, pre, prev, nreq, now, tokenVars, held,
                   schedules, documents, polls, notifications, activities>>

\* POST /api/v1/polls/{poll_id}/close, admin only: the dependencies.
ClosePoll(p, poll_id, token, keep) ==
    /\ Begin(p, [op |-> "close_poll", poll_id |-> poll_id, token |-> token], keep)
    /\ UNCHANGED <<dbVars, prev, now, tokenVars, held, contentVars>>
    /\ LET current_user == get_current_user(users, token, now)
           o == IF current_user.kind = "value"
                THEN require_admin(current_user.value) ELSE current_user
       IN  Gate(p, o, Goto(p, "close_poll"))

\* close_poll: the poll is read; it must exist and be active.
ClosePollSelect(p) ==
    /\ pc[p] = "close_poll"
    /\ UNCHANGED <<dbVars, req, loc, pre, prev, nreq, now, tokenVars, held,
                   contentVars>>
    /\ IF req[p].poll_id \notin DOMAIN polls
       THEN End(p, HTTPException(HTTP_404_NOT_FOUND, "Poll not found"), "not_found")
       ELSE IF ~polls[req[p].poll_id].is_active
       THEN End(p, HTTPException(HTTP_400_BAD_REQUEST, "Poll is already closed"),
                "closed")
       ELSE Goto(p, "close_commit")

\* close_poll: is_active = False, log_activity, commit, return.
ClosePollCommit(p) ==
    /\ pc[p] = "close_commit"
    /\ polls' = [polls EXCEPT ![req[p].poll_id].is_active = FALSE]
    /\ activities' = Append(activities,
           Activity(<<"Poll Closed: ", polls[req[p].poll_id].title>>,
                    Get(loc[p]).name, "close", "poll", req[p].poll_id))
    /\ End(p, Returned(200, [message |-> "Poll closed successfully"]), "returned")
    /\ UNCHANGED <<dbVars, req, loc, pre, prev, nreq, now, tokenVars, held,
                   schedules, documents, poll_votes, notifications, sequences>>

\* ------------------------------------------- app/routers/notifications.py
\* The bodies POST /api/v1/notifications/send accepts (NotificationCreate),
\* for the two users and for an id nobody has.
NotificationCreate ==
    [user_id : 1..3, title : {"Hi"}, message : {"Staff meeting"},
     type : {"info"}]

\* The ids of the path /{notification_id}/read.
NotificationIds == 1..2

\* The row a Notification(...) makes: is_read defaults to False.
NewNotification(id, user_id, title, message, type) ==
    [id |-> id, user_id |-> user_id, title |-> title, message |-> message,
     type |-> type, is_read |-> FALSE]

\* NotificationResponse.from_notification.
NotificationResponse(notif) ==
    [id |-> notif.id, title |-> notif.title, message |-> notif.message,
     type |-> notif.type, isRead |-> notif.is_read]

\* mark_as_read's select: the notification with the id, of the user.
OwnNotificationOfAnyone(ns, notification_id, user_id) ==
    {n \in DOMAIN ns : n = notification_id}
OwnNotification(ns, notification_id, user_id) ==
    {n \in DOMAIN ns : n = notification_id /\ ns[n].user_id = user_id}

\* PATCH /api/v1/notifications/{notification_id}/read: the dependency.
MarkAsRead(p, notification_id, token, keep) ==
    /\ Begin(p, [op |-> "mark_as_read", notification_id |-> notification_id,
                 token |-> token], keep)
    /\ UNCHANGED <<dbVars, prev, now, tokenVars, held, contentVars>>
    /\ LET o == get_current_user(users, token, now)
       IN  Gate(p, o, Goto(p, "mark_select"))

\* mark_as_read: the notification is read, among the user's own.
MarkAsReadSelect(p) ==
    /\ pc[p] = "mark_select"
    /\ UNCHANGED <<dbVars, req, loc, pre, prev, nreq, now, tokenVars, held,
                   contentVars>>
    /\ IF OwnNotification(notifications, req[p].notification_id,
                          Get(loc[p]).id) = {}
       THEN End(p, HTTPException(HTTP_404_NOT_FOUND, "Notification not found"),
                "not_found")
       ELSE Goto(p, "mark_commit")

\* mark_as_read: is_read = True, commit, return.
MarkAsReadCommit(p) ==
    /\ pc[p] = "mark_commit"
    /\ notifications' = [notifications EXCEPT
                            ![req[p].notification_id].is_read = TRUE]
    /\ End(p, Returned(200, [message |-> "Notification marked as read"]),
           "returned")
    /\ UNCHANGED <<dbVars, req, loc, pre, prev, nreq, now, tokenVars, held,
                   schedules, documents, polls, poll_votes, activities,
                   sequences>>

\* PATCH /api/v1/notifications/read-all: the dependency.
MarkAllAsRead(p, token, keep) ==
    /\ Begin(p, [op |-> "mark_all_as_read", token |-> token], keep)
    /\ UNCHANGED <<dbVars, prev, now, tokenVars, held, contentVars>>
    /\ LET o == get_current_user(users, token, now)
       IN  Gate(p, o, Goto(p, "mark_all"))

\* mark_all_as_read: the bulk UPDATE of the user's unread notifications,
\* commit, return.
MarkAllAsReadCommit(p) ==
    /\ pc[p] = "mark_all"
    /\ notifications' =
          [n \in DOMAIN notifications |->
              IF /\ notifications[n].user_id = Get(loc[p]).id
                 /\ notifications[n].is_read = FALSE
              THEN [notifications[n] EXCEPT !.is_read = TRUE]
              ELSE notifications[n]]
    /\ End(p, Returned(200, [message |-> "All notifications marked as read"]),
           "returned")
    /\ UNCHANGED <<dbVars, req, loc, pre, prev, nreq, now, tokenVars, held,
                   schedules, documents, polls, poll_votes, activities,
                   sequences>>

\* POST /api/v1/notifications/send, admin only: the dependencies.
SendNotification(p, data, token, keep) ==
    /\ Begin(p, [op |-> "send_notification", data |-> data, token |-> token],
             keep)
    /\ UNCHANGED <<dbVars, prev, now, tokenVars, held, contentVars>>
    /\ LET current_user == get_current_user(users, token, now)
           o == IF current_user.kind = "value"
                THEN require_admin(current_user.value) ELSE current_user
       IN  Gate(p, o, Goto(p, "send_select"))

\* send_notification: the target user must exist.
SendNotificationSelect(p) ==
    /\ pc[p] = "send_select"
    /\ UNCHANGED <<dbVars, req, loc, pre, prev, nreq, now, tokenVars, held,
                   contentVars>>
    /\ IF req[p].data.user_id \notin DOMAIN users
       THEN End(p, HTTPException(HTTP_404_NOT_FOUND, "Target user not found"),
                "not_found")
       ELSE Goto(p, "send_commit")

\* send_notification: add, commit, refresh, return.
SendNotificationCommit(p) ==
    /\ pc[p] = "send_commit"
    /\ LET data == req[p].data
           notification == NewNotification(sequences.notifications, data.user_id,
                                           data.title, data.message, data.type)
       IN  /\ notifications' = Inserted(notifications, notification.id,
                                        notification)
           /\ sequences' = Drawn("notifications")
           /\ End(p, Returned(HTTP_201_CREATED,
                              NotificationResponse(notification)), "returned")
    /\ UNCHANGED <<dbVars, req, loc, pre, prev, nreq, now, tokenVars, held,
                   schedules, documents, polls, poll_votes, activities>>

\* POST /api/v1/notifications/broadcast, admin only: the dependencies.
BroadcastNotification(p, token, keep) ==
    /\ Begin(p, [op |-> "broadcast_notification", title |-> "Announcement",
                 message |-> "Staff meeting", notification_type |-> "info",
                 token |-> token], keep)
    /\ UNCHANGED <<dbVars, prev, now, tokenVars, held, contentVars>>
    /\ LET current_user == get_current_user(users, token, now)
           o == IF current_user.kind = "value"
                THEN require_admin(current_user.value) ELSE current_user
       IN  Gate(p, o, Goto(p, "broadcast_select"))

\* broadcast_notification: the ids of all users are read.
BroadcastNotificationSelect(p) ==
    /\ pc[p] = "broadcast_select"
    /\ loc' = [loc EXCEPT ![p] = Some(DOMAIN users)]
    /\ Goto(p, "broadcast_commit")
    /\ UNCHANGED <<dbVars, req, pre, prev, nreq, now, tokenVars, held,
                   contentVars>>

\* The ids the notifications sequence gives to the users `user_ids`, in the
\* order of the ids.
BroadcastId(first, user_ids, uid) ==
    first + Cardinality({u \in user_ids : u < uid})

\* broadcast_notification: one notification per user, add_all, commit,
\* return.
BroadcastNotificationCommit(p) ==
    /\ pc[p] = "broadcast_commit"
    /\ LET user_ids == Get(loc[p])
           first == sequences.notifications
           added == [id \in {BroadcastId(first, user_ids, uid) : uid \in user_ids}
                        |-> LET uid == CHOOSE u \in user_ids :
                                          BroadcastId(first, user_ids, u) = id
                            IN  NewNotification(id, uid, req[p].title,
                                                req[p].message,
                                                req[p].notification_type)]
       IN  /\ notifications' = notifications @@ added
           /\ sequences' = [sequences EXCEPT
                               !.notifications = @ + Cardinality(user_ids)]
           /\ End(p, Returned(HTTP_201_CREATED,
                              [message |-> <<"Notification sent to ",
                                             Cardinality(user_ids), " users">>,
                               count |-> Cardinality(user_ids)]), "returned")
    /\ UNCHANGED <<dbVars, req, loc, pre, prev, nreq, now, tokenVars, held,
                   schedules, documents, polls, poll_votes, activities>>

\* ------------------------------------------------ app/routers/schedules.py
\* The bodies of POST /api/v1/schedules (ScheduleCreate) and of PUT
\* /api/v1/schedules/{schedule_id} (ScheduleUpdate), and the ids of the path.
ScheduleCreate ==
    [department : {"Mathematics"}, class_count : {12}, staff_count : {8},
     status : {"Active"}]
ScheduleUpdate ==
    [department : {NoneValue}, class_count : {NoneValue, Some(13)},
     staff_count : {NoneValue}, status : {NoneValue, Some("Archived")}]
ScheduleIds == {1}

\* `a or b`.
Or(a, b) == IF Falsy(a) THEN b ELSE a

\* ScheduleResponse.from_schedule.
ScheduleResponse(schedule) ==
    [id |-> Str(schedule.id), department |-> schedule.department,
     classCount |-> schedule.class_count, staffCount |-> schedule.staff_count,
     status |-> schedule.status]

\* update_schedule's assignments: a field is assigned when the body gives it.
ScheduleAssigned(schedule, data) ==
    [c \in DOMAIN schedule |->
        IF c \in DOMAIN data /\ ~IsNone(data[c]) THEN Get(data[c])
        ELSE schedule[c]]

\* POST /api/v1/schedules, admin only: the dependencies.
CreateSchedule(p, data, token, keep) ==
    /\ Begin(p, [op |-> "create_schedule", data |-> data, token |-> token], keep)
    /\ UNCHANGED <<dbVars, prev, now, tokenVars, held, contentVars>>
    /\ LET current_user == get_current_user(users, token, now)
           o == IF current_user.kind = "value"
                THEN require_admin(current_user.value) ELSE current_user
       IN  Gate(p, o, Goto(p, "create_schedule"))

\* create_schedule: add, flush, log_activity, commit, refresh, return.
CreateScheduleCommit(p) ==
    /\ pc[p] = "create_schedule"
    /\ LET current_user == Get(loc[p])
           data == req[p].data
           schedule == [id |-> sequences.schedules,
                        department |-> data.department,
                        class_count |-> data.class_count,
                        staff_count |-> data.staff_count,
                        status |-> data.status]
       IN  /\ schedules' = Inserted(schedules, schedule.id, schedule)
           /\ sequences' = Drawn("schedules")
           /\ activities' = Append(activities,
                  Activity(<<"Schedule Created: ", data.department>>,
                           Or(current_user.department, current_user.name),
                           "create", "schedule", schedule.id))
           /\ End(p, Returned(HTTP_201_CREATED, ScheduleResponse(schedule)),
                  "returned")
    /\ UNCHANGED <<dbVars, req, loc, pre, prev, nreq, now, tokenVars, held,
                   documents, polls, poll_votes, notifications>>

\* PUT /api/v1/schedules/{schedule_id}, admin only: the dependencies.
UpdateSchedule(p, schedule_id, data, token, keep) ==
    /\ Begin(p, [op |-> "update_schedule", schedule_id |-> schedule_id,
                 data |-> data, token |-> token], keep)
    /\ UNCHANGED <<dbVars, prev, now, tokenVars, held, contentVars>>
    /\ LET current_user == get_current_user(users, token, now)
           o == IF current_user.kind = "value"
                THEN require_admin(current_user.value) ELSE current_user
       IN  Gate(p, o, Goto(p, "update_schedule"))

\* update_schedule: the schedule is read; the handler keeps it beside the
\* current user.
UpdateScheduleSelect(p) ==
    /\ pc[p] = "update_schedule"
    /\ UNCHANGED <<dbVars, req, pre, prev, nreq, now, tokenVars, held,
                   contentVars>>
    /\ IF req[p].schedule_id \notin DOMAIN schedules
       THEN /\ End(p, HTTPException(HTTP_404_NOT_FOUND, "Schedule not found"),
                   "not_found")
            /\ UNCHANGED loc
       ELSE /\ loc' = [loc EXCEPT ![p] =
                          Some([current_user |-> Get(loc[p]),
                                schedule |-> schedules[req[p].schedule_id]])]
            /\ Goto(p, "update_commit")

\* update_schedule: the assignments, log_activity, commit, refresh, return.
\* The UPDATE of a row that is gone matches nothing: StaleDataError; with
\* nothing to update, it is the refresh after the commit that fails.
UpdateScheduleCommit(p) ==
    /\ pc[p] = "update_commit"
    /\ LET current_user == Get(loc[p]).current_user
           schedule == Get(loc[p]).schedule
           new == ScheduleAssigned(schedule, req[p].data)
       IN  IF schedule.id \notin DOMAIN schedules /\ new # schedule
           THEN /\ End(p, Unhandled("StaleDataError"), "error")
                /\ UNCHANGED <<schedules, activities>>
           ELSE LET table == IF schedule.id \in DOMAIN schedules
                             THEN [schedules EXCEPT ![schedule.id] =
                                      Updated(@, schedule, new)]
                             ELSE schedules
                IN  /\ schedules' = table
                    /\ activities' = Append(activities,
                           Activity(<<"Schedule Updated: ", new.department>>,
                                    Or(current_user.department, current_user.name),
                                    "update", "schedule", schedule.id))
                    /\ IF schedule.id \in DOMAIN table
                       THEN End(p, Returned(200, ScheduleResponse(table[schedule.id])),
                                "returned")
                       ELSE End(p, Unhandled("InvalidRequestError"), "error")
    /\ UNCHANGED <<dbVars, req, loc, pre, prev, nreq, now, tokenVars, held,
                   documents, polls, poll_votes, notifications, sequences>>

\* DELETE /api/v1/schedules/{schedule_id}, admin only: the dependencies.
DeleteSchedule(p, schedule_id, token, keep) ==
    /\ Begin(p, [op |-> "delete_schedule", schedule_id |-> schedule_id,
                 token |-> token], keep)
    /\ UNCHANGED <<dbVars, prev, now, tokenVars, held, contentVars>>
    /\ LET current_user == get_current_user(users, token, now)
           o == IF current_user.kind = "value"
                THEN require_admin(current_user.value) ELSE current_user
       IN  Gate(p, o, Goto(p, "delete_schedule"))

\* delete_schedule: the schedule is read; the handler keeps it beside the
\* current user.
DeleteScheduleSelect(p) ==
    /\ pc[p] = "delete_schedule"
    /\ UNCHANGED <<dbVars, req, pre, prev, nreq, now, tokenVars, held,
                   contentVars>>
    /\ IF req[p].schedule_id \notin DOMAIN schedules
       THEN /\ End(p, HTTPException(HTTP_404_NOT_FOUND, "Schedule not found"),
                   "not_found")
            /\ UNCHANGED loc
       ELSE /\ loc' = [loc EXCEPT ![p] =
                          Some([current_user |-> Get(loc[p]),
                                schedule |-> schedules[req[p].schedule_id]])]
            /\ Goto(p, "delete_commit")

\* A table without the row `id`.
Deleted(table, id) == [i \in DOMAIN table \ {id} |-> table[i]]

\* delete_schedule: log_activity, delete, commit, return. The DELETE of a
\* row that is gone matches nothing: StaleDataError, and the rollback takes
\* the activity with it.
DeleteScheduleCommit(p) ==
    /\ pc[p] = "delete_commit"
    /\ LET current_user == Get(loc[p]).current_user
           schedule == Get(loc[p]).schedule
       IN  IF schedule.id \notin DOMAIN schedules
           THEN /\ End(p, Unhandled("StaleDataError"), "error")
                /\ UNCHANGED <<schedules, activities>>
           ELSE /\ schedules' = Deleted(schedules, schedule.id)
                /\ activities' = Append(activities,
                       Activity(<<"Schedule Deleted: ", schedule.department>>,
                                Or(current_user.department, current_user.name),
                                "delete", "schedule", schedule.id))
                /\ End(p, Returned(204, None), "returned")
    /\ UNCHANGED <<dbVars, req, loc, pre, prev, nreq, now, tokenVars, held,
                   documents, polls, poll_votes, notifications, sequences>>

\* ------------------------------------------------ app/routers/documents.py
\* The bodies of POST /api/v1/documents (DocumentCreate), and the ids of the
\* path /{document_id}.
DocumentCreate ==
    [title : {"Handbook"}, category : {"Policies"}, description : {None},
     file_url : {"https://storage.example.com/handbook.pdf"},
     file_size : {2048576}]
DocumentIds == {1}

\* DocumentResponse.from_document.
DocumentResponse(doc) ==
    [id |-> doc.id, title |-> doc.title, category |-> doc.category,
     description |-> doc.description, fileUrl |-> doc.file_url,
     fileSize |-> doc.file_size, uploadedBy |-> doc.uploaded_by]

\* POST /api/v1/documents, for every user: the dependency.
CreateDocument(p, data, token, keep) ==
    /\ Begin(p, [op |-> "create_document", data |-> data, token |-> token], keep)
    /\ UNCHANGED <<dbVars, prev, now, tokenVars, held, contentVars>>
    /\ LET o == get_current_user(users, token, now)
       IN  Gate(p, o, Goto(p, "create_document"))

\* create_document: add, flush, log_activity, commit, refresh, return.
CreateDocumentCommit(p) ==
    /\ pc[p] = "create_document"
    /\ LET current_user == Get(loc[p])
           data == req[p].data
           document == [id |-> sequences.documents, title |-> data.title,
                        category |-> data.category,
                        description |-> data.description,
                        file_url |-> data.file_url, file_size |-> data.file_size,
                        uploaded_by |-> current_user.id]
       IN  /\ documents' = Inserted(documents, document.id, document)
           /\ sequences' = Drawn("documents")
           /\ activities' = Append(activities,
                  Activity(<<"Document Uploaded: ", data.title>>,
                           current_user.name, "upload", "document", document.id))
           /\ End(p, Returned(HTTP_201_CREATED, DocumentResponse(document)),
                  "returned")
    /\ UNCHANGED <<dbVars, req, loc, pre, prev, nreq, now, tokenVars, held,
                   schedules, polls, poll_votes, notifications>>

\* DELETE /api/v1/documents/{document_id}, admin only: the dependencies.
DeleteDocument(p, document_id, token, keep) ==
    /\ Begin(p, [op |-> "delete_document", document_id |-> document_id,
                 token |-> token], keep)
    /\ UNCHANGED <<dbVars, prev, now, tokenVars, held, contentVars>>
    /\ LET current_user == get_current_user(users, token, now)
           o == IF current_user.kind = "value"
                THEN require_admin(current_user.value) ELSE current_user
       IN  Gate(p, o, Goto(p, "delete_document"))

\* delete_document: the document is read.
DeleteDocumentSelect(p) ==
    /\ pc[p] = "delete_document"
    /\ UNCHANGED <<dbVars, req, pre, prev, nreq, now, tokenVars, held,
                   contentVars>>
    /\ IF req[p].document_id \notin DOMAIN documents
       THEN /\ End(p, HTTPException(HTTP_404_NOT_FOUND, "Document not found"),
                   "not_found")
            /\ UNCHANGED loc
       ELSE /\ loc' = [loc EXCEPT ![p] =
                          Some([current_user |-> Get(loc[p]),
                                document |-> documents[req[p].document_id]])]
            /\ Goto(p, "delete_document_commit")

\* delete_document: log_activity, delete, commit, return.
DeleteDocumentCommit(p) ==
    /\ pc[p] = "delete_document_commit"
    /\ LET current_user == Get(loc[p]).current_user
           document == Get(loc[p]).document
       IN  IF document.id \notin DOMAIN documents
           THEN /\ End(p, Unhandled("StaleDataError"), "error")
                /\ UNCHANGED <<documents, activities>>
           ELSE /\ documents' = Deleted(documents, document.id)
                /\ activities' = Append(activities,
                       Activity(<<"Document Deleted: ", document.title>>,
                                current_user.name, "delete", "document",
                                document.id))
                /\ End(p, Returned(204, None), "returned")
    /\ UNCHANGED <<dbVars, req, loc, pre, prev, nreq, now, tokenVars, held,
                   schedules, polls, poll_votes, notifications, sequences>>

\* The response is sent and the slot is free for the next request; `record`
\* is what is kept of the request.
Leave(p, record) ==
    /\ pc[p] = "done"
    /\ prev' = record
    /\ pc' = [pc EXCEPT ![p] = "idle"]
    /\ req' = [req EXCEPT ![p] = NoRequest]
    /\ loc' = [loc EXCEPT ![p] = NoneValue]
    /\ resp' = [resp EXCEPT ![p] = NoResponse]
    /\ branch' = [branch EXCEPT ![p] = "none"]
    /\ pre' = [pre EXCEPT ![p] = <<>>]
    /\ UNCHANGED <<dbVars, nreq, now, tokenVars, contentVars>>

\* The response is sent to a client that keeps nothing of it.
Respond(p, record) == Leave(p, record) /\ UNCHANGED held

\* The response is sent to a client that keeps the token of a login, local
\* or federated, with the id of the user the response names.
Receive(p, record) ==
    /\ Leave(p, record)
    /\ held' = IF req[p].op \in {"login", "google_auth"}
                  /\ resp[p].kind = "returned"
               THEN held \cup {[token |-> resp[p].body.token,
                                id |-> resp[p].body.user.id]}
               ELSE held

\* --------------------------------------------------------- specifications
Step(p) ==
    \/ \E v \in Verified : GoogleAuth(p, v, FALSE)
    \/ GoogleByEmail(p)
    \/ GoogleLink(p)
    \/ GoogleCreate(p)
    \/ \E user_data \in UserCreate : Register(p, user_data, FALSE)
    \/ \E salt \in Salts : RegisterInsert(p, salt)
    \/ \E request \in LoginRequest : Login(p, request, FALSE)
    \/ Respond(p, prev)

\* Requests served concurrently, each in a slot.
Next == \E p \in Procs : Step(p)
Spec == Init /\ [][Next]_vars

\* Requests served one after the other, with the history the sequential
\* contracts speak of: the table each request began with, and the request
\* answered before it.
SeqNext ==
    \/ \E v \in Verified : GoogleAuth(1, v, TRUE)
    \/ GoogleByEmail(1)
    \/ GoogleLink(1)
    \/ GoogleCreate(1)
    \/ \E user_data \in UserCreate : Register(1, user_data, TRUE)
    \/ \E salt \in Salts : RegisterInsert(1, salt)
    \/ \E request \in LoginRequest : Login(1, request, TRUE)
    \/ Respond(1, [req |-> req[1], resp |-> resp[1], branch |-> branch[1],
                    pre |-> pre[1]])
SeqSpec == Init /\ [][SeqNext]_vars

\* The token functions called directly, as the tests call them.
TokenSpec == Init /\ [][TokenNext]_vars

\* The bearer tokens a request may carry: tokens as login issues them, for
\* the ids 1 and 2, and what else may stand in the header: a token whose
\* subject is no number, one without a subject, one that has expired, one
\* signed with another key, and text that is no token.
BearerTokens ==
    LET issue(data) == create_access_token(data, NoneValue, 0)
    IN  {issue([sub |-> Str(1)]), issue([sub |-> Str(2)]),
         issue([sub |-> <<"m", "e">>]), issue([name |-> "Ann"]),
         create_access_token([sub |-> Str(1)], Some(0 - 2 * TicksPerSecond), 0),
         [issue([sub |-> Str(1)]) EXCEPT
             !.sig = Sign(issue([sub |-> Str(1)]).claims, OtherKey, Algorithm)],
         [issue([sub |-> Str(1)]) EXCEPT !.wellformed = FALSE]}

\* Registrations, then requests to the routes behind the gate, one after the
\* other.
GateNext ==
    \/ \E user_data \in UserCreate : Register(1, user_data, TRUE)
    \/ \E salt \in Salts : RegisterInsert(1, salt)
    \/ \E token \in BearerTokens : GetMe(1, token, TRUE)
    \/ \E token \in BearerTokens : ListUsers(1, token, TRUE)
    \/ ListUsersQuery(1)
    \/ \E token \in BearerTokens, allowed_roles \in AllowedRoles :
          TeachersOnly(1, allowed_roles, token, TRUE)
    \/ Respond(1, prev)
GateSpec == Init /\ [][GateNext]_vars

\* Federated logins with idTokens of every kind, one after the other.
VerifyNext ==
    \/ \E token \in IdTokens : GoogleAuthRequest(1, token, TRUE)
    \/ Respond(1, [req |-> req[1], resp |-> resp[1], branch |-> branch[1],
                    pre |-> pre[1]])
VerifySpec == Init /\ [][VerifyNext]_vars

\* The tokens a client holds: those the logins answered so far returned.
\* `record` is the last request answered, with the ones before it.
RECURSIVE TokensOf(_)
TokensOf(record) ==
    (IF record.req.op = "login" /\ record.resp.kind = "returned"
     THEN {record.resp.body.token} ELSE {})
    \cup (IF "before" \in DOMAIN record THEN TokensOf(record.before) ELSE {})

\* One client, as the API test drives it: it registers, logs in, and calls
\* the gated routes with the tokens its logins returned; every answer is
\* kept, the latest first.
E2ENext ==
    \/ \E user_data \in UserCreate : Register(1, user_data, TRUE)
    \/ \E salt \in Salts : RegisterInsert(1, salt)
    \/ \E request \in LoginRequest : Login(1, request, TRUE)
    \/ \E token \in TokensOf(prev) : GetMe(1, token, TRUE)
    \/ \E token \in TokensOf(prev) : ListUsers(1, token, TRUE)
    \/ ListUsersQuery(1)
    \/ Respond(1, [req |-> req[1], resp |-> resp[1], branch |-> branch[1],
                    pre |-> pre[1], before |-> prev])
E2ESpec == Init /\ [][E2ENext]_vars

\* The accounts of the API over time: registrations, local and federated
\* logins, profile updates and GET /me with the tokens the logins returned,
\* one request after the other, while time passes between the requests.
AccountNext ==
    \/ \E user_data \in UserCreate : Register(1, user_data, TRUE)
    \/ \E salt \in Salts : RegisterInsert(1, salt)
    \/ \E request \in LoginRequest : Login(1, request, TRUE)
    \/ \E v \in Verified : GoogleAuth(1, v, TRUE)
    \/ GoogleByEmail(1)
    \/ GoogleLink(1)
    \/ GoogleCreate(1)
    \/ \E h \in held, updates \in UserUpdate :
          UpdateProfile(1, updates, h.token, TRUE)
    \/ UpdateProfileCommit(1)
    \/ \E h \in held : GetMe(1, h.token, TRUE)
    \/ pc[1] = "idle"
       /\ \E d \in {Minutes(ACCESS_TOKEN_EXPIRE_MINUTES) - 1} :
             Advance(d)
    \/ Receive(1, [req |-> req[1], resp |-> resp[1], branch |-> branch[1],
                    pre |-> pre[1]])
AccountSpec == Init /\ [][AccountNext]_vars

\* One client registers with or without a role, logs in, and calls routes
\* behind the role checks with the tokens its logins returned; every answer
\* is kept, the latest first.
RoleNext ==
    \/ \E body \in RegisterBodies : RegisterRequest(1, body, TRUE)
    \/ \E salt \in Salts : RegisterInsert(1, salt)
    \/ \E request \in LoginRequest : Login(1, request, TRUE)
    \/ \E token \in TokensOf(prev), allowed_roles \in AllowedRoles :
          TeachersOnly(1, allowed_roles, token, TRUE)
    \/ \E token \in TokensOf(prev) : ListUsers(1, token, TRUE)
    \/ ListUsersQuery(1)
    \/ Respond(1, [req |-> req[1], resp |-> resp[1], branch |-> branch[1],
                    pre |-> pre[1], before |-> prev])
RoleSpec == Init /\ [][RoleNext]_vars

\* The tokens login issues for the two seeded users.
UserTokens == {create_access_token([sub |-> Str(i)], NoneValue, 0) : i \in 1..2}

\* The polls: created, voted on and closed by requests served concurrently.
PollStep(p) ==
    \/ \E data \in PollCreate, token \in UserTokens :
          CreatePoll(p, data, token, FALSE)
    \/ CreatePollCommit(p)
    \/ CreatePollRespond(p)
    \/ \E poll_id \in PollIds, vote \in VoteRequest, token \in UserTokens :
          VoteOnPoll(p, poll_id, vote, token, FALSE)
    \/ VoteOnPollSelect(p)
    \/ VoteOnPollCheck(p)
    \/ VoteOnPollInsert(p)
    \/ \E poll_id \in PollIds, token \in UserTokens :
          ClosePoll(p, poll_id, token, FALSE)
    \/ ClosePollSelect(p)
    \/ ClosePollCommit(p)
    \/ Respond(p, prev)
PollNext == \E p \in Procs : PollStep(p)
PollSpec == SeededInit /\ [][PollNext]_vars

\* The notifications: sent, broadcast and marked as read by requests served
\* concurrently.
NotifyStep(p) ==
    \/ \E data \in NotificationCreate, token \in UserTokens :
          SendNotification(p, data, token, FALSE)
    \/ SendNotificationSelect(p)
    \/ SendNotificationCommit(p)
    \/ \E token \in UserTokens : BroadcastNotification(p, token, FALSE)
    \/ BroadcastNotificationSelect(p)
    \/ BroadcastNotificationCommit(p)
    \/ \E notification_id \in NotificationIds, token \in UserTokens :
          MarkAsRead(p, notification_id, token, FALSE)
    \/ MarkAsReadSelect(p)
    \/ MarkAsReadCommit(p)
    \/ \E token \in UserTokens : MarkAllAsRead(p, token, FALSE)
    \/ MarkAllAsReadCommit(p)
    \/ Respond(p, prev)
NotifyNext == \E p \in Procs : NotifyStep(p)
NotifySpec == SeededInit /\ [][NotifyNext]_vars

\* Every route that writes, and the admin-only list of users, called one
\* after the other with bearer tokens of every kind.
AdminNext ==
    \/ \E data \in ScheduleCreate, token \in BearerTokens :
          CreateSchedule(1, data, token, FALSE)
    \/ CreateScheduleCommit(1)
    \/ \E schedule_id \in ScheduleIds, data \in ScheduleUpdate,
          token \in BearerTokens :
          UpdateSchedule(1, schedule_id, data, token, FALSE)
    \/ UpdateScheduleSelect(1)
    \/ UpdateScheduleCommit(1)
    \/ \E schedule_id \in ScheduleIds, token \in BearerTokens :
          DeleteSchedule(1, schedule_id, token, FALSE)
    \/ DeleteScheduleSelect(1)
    \/ DeleteScheduleCommit(1)
    \/ \E data \in DocumentCreate, token \in BearerTokens :
          CreateDocument(1, data, token, FALSE)
    \/ CreateDocumentCommit(1)
    \/ \E document_id \in DocumentIds, token \in BearerTokens :
          DeleteDocument(1, document_id, token, FALSE)
    \/ DeleteDocumentSelect(1)
    \/ DeleteDocumentCommit(1)
    \/ \E data \in PollCreate, token \in BearerTokens :
          CreatePoll(1, data, token, FALSE)
    \/ CreatePollCommit(1)
    \/ CreatePollRespond(1)
    \/ \E poll_id \in PollIds, vote \in VoteRequest, token \in BearerTokens :
          VoteOnPoll(1, poll_id, vote, token, FALSE)
    \/ VoteOnPollSelect(1)
    \/ VoteOnPollCheck(1)
    \/ VoteOnPollInsert(1)
    \/ \E poll_id \in PollIds, token \in BearerTokens :
          ClosePoll(1, poll_id, token, FALSE)
    \/ ClosePollSelect(1)
    \/ ClosePollCommit(1)
    \/ \E data \in NotificationCreate, token \in BearerTokens :
          SendNotification(1, data, token, FALSE)
    \/ SendNotificationSelect(1)
    \/ SendNotificationCommit(1)
    \/ \E token \in BearerTokens : BroadcastNotification(1, token, FALSE)
    \/ BroadcastNotificationSelect(1)
    \/ BroadcastNotificationCommit(1)
    \/ \E notification_id \in NotificationIds, token \in BearerTokens :
          MarkAsRead(1, notification_id, token, FALSE)
    \/ MarkAsReadSelect(1)
    \/ MarkAsReadCommit(1)
    \/ \E token \in BearerTokens : MarkAllAsRead(1, token, FALSE)
    \/ MarkAllAsReadCommit(1)
    \/ \E token \in BearerTokens : ListUsers(1, token, FALSE)
    \/ ListUsersQuery(1)
    \/ Respond(1, prev)
AdminSpec == SeededInit /\ [][AdminNext]_vars

\* ------------------------------------------------------------------ claims
\* The slots whose google_auth request carried a token Google accepted.
GoogleCall(p) == req[p].op = "google_auth" /\ req[p].idToken.ok
GoogleDataOf(p) == req[p].idToken.data

\* The ids of the rows of table `us` with google_id g, with email e.
WithGoogleId(us, g) == {i \in DOMAIN us : us[i].google_id = g}
WithEmail(us, e) == {i \in DOMAIN us : us[i].email = e}

\* C1: under any interleaving of federated logins and registrations no two
\* users share an email and no two users share a google_id; of the logins
\* that race to create the same identity at most one row is committed.
C1_NoDuplicateUsers ==
    /\ \A i, j \in DOMAIN users :
          i # j => /\ users[i].email # users[j].email
                   /\ users[i].google_id # None
                        => users[i].google_id # users[j].google_id
    /\ \A g \in GoogleIds : Cardinality(WithGoogleId(users, g)) <= 1
    /\ \A e \in Emails : Cardinality(WithEmail(users, e)) <= 1

\* C1 witness: two first logins of one identity both found no user and both
\* tried to create it; one row was committed and the other insert refused.
C1_RaceLost ==
    \E p, q \in Procs :
        /\ p # q /\ GoogleCall(p) /\ GoogleCall(q)
        /\ GoogleDataOf(p) = GoogleDataOf(q)
        /\ pc[p] = "done" /\ branch[p] = "created"
        /\ pc[q] = "done" /\ branch[q] = "conflict" /\ IsNone(loc[q])
        /\ Cardinality(WithGoogleId(users, GoogleDataOf(p).google_id)) = 1

\* C2: a federated login that loses the creation race ends as a rejected
\* write that the auth core handles (a client error answered by the
\* handler), not as an unhandled failure, and the table holds no partial or
\* merged row.
C2_ConflictIsRejectedWrite ==
    \A p \in Procs :
        (pc[p] = "done" /\ GoogleCall(p) /\ branch[p] = "conflict")
            => /\ resp[p].kind = "HTTPException"
               /\ resp[p].status_code \in 400..499
               /\ Cardinality(WithGoogleId(users, GoogleDataOf(p).google_id)) <= 1

\* A request slot was answered with the token and the user of row `user`.
AnsweredWithUser(r, user) ==
    /\ r.kind = "returned"
    /\ r.body.user.id = Str(user.id)
    /\ r.body.user.email = user.email

\* C3: get_or_create_google_user called twice in sequence with the same
\* payload returns the same user id both times, and the table grows by one
\* row if no user matched before the first call and by none if one did.
C3_TwiceSameUser ==
    (pc[1] = "done" /\ GoogleCall(1) /\ prev.req = req[1])
        => LET d == GoogleDataOf(1)
               matched == WithGoogleId(prev.pre, d.google_id) # {}
                          \/ WithEmail(prev.pre, d.email) # {}
           IN  /\ prev.resp.kind = "returned"
               /\ resp[1].kind = "returned"
               /\ resp[1].body.user.id = prev.resp.body.user.id
               /\ Cardinality(DOMAIN users)
                    = Cardinality(DOMAIN prev.pre) + (IF matched THEN 0 ELSE 1)

\* C3 witness: the first call created the user, the second call found it.
C3_CreatedThenFound ==
    /\ pc[1] = "done" /\ GoogleCall(1) /\ prev.req = req[1]
    /\ prev.branch = "created"
    /\ resp[1].kind = "returned"
    /\ WithGoogleId(prev.pre, GoogleDataOf(1).google_id) = {}
    /\ WithEmail(prev.pre, GoogleDataOf(1).email) = {}

\* C4: a call whose google_id matches no user and whose email matches a
\* password-based user sets that user's google_id, adds no row, keeps the
\* avatar the user had, and takes the identity's avatar only when the user
\* had none.
C4_LinkByEmail ==
    (pc[1] = "done" /\ GoogleCall(1))
        => LET d == GoogleDataOf(1)
           IN  \A u \in WithEmail(pre[1], d.email) :
                  (WithGoogleId(pre[1], d.google_id) = {}
                   /\ pre[1][u].hashed_password # <<>>)
                     => /\ DOMAIN users = DOMAIN pre[1]
                        /\ users = [pre[1] EXCEPT
                              ![u].google_id = d.google_id,
                              ![u].avatar = IF pre[1][u].avatar # None
                                            THEN pre[1][u].avatar
                                            ELSE d.avatar]
                        /\ AnsweredWithUser(resp[1], users[u])

\* C4 witness: the linked user had an avatar, the identity offered another,
\* and the call has returned.
C4_LinkedKeepingAvatar ==
    /\ pc[1] = "done" /\ GoogleCall(1) /\ branch[1] = "linked"
    /\ \E u \in WithEmail(pre[1], GoogleDataOf(1).email) :
          /\ WithGoogleId(pre[1], GoogleDataOf(1).google_id) = {}
          /\ pre[1][u].hashed_password # <<>>
          /\ pre[1][u].avatar # None
          /\ GoogleDataOf(1).avatar # None
          /\ GoogleDataOf(1).avatar # pre[1][u].avatar

\* Slot p takes the step that begins a google_auth request whose token
\* Google accepts.
BeginsGoogleCall(p) ==
    /\ pc[p] = "idle" /\ pc'[p] # "idle"
    /\ req'[p].op = "google_auth" /\ req'[p].idToken.ok

\* C5: when a user with the identity's google_id exists the call returns
\* that user and leaves the whole table unchanged, also when another user
\* has the identity's email.
C5_FoundByGoogleIdUnchanged ==
    [][\A p \in Procs :
          BeginsGoogleCall(p)
            => \A u \in WithGoogleId(users, req'[p].idToken.data.google_id) :
                  /\ pc'[p] = "done"
                  /\ resp'[p].kind = "returned"
                  /\ resp'[p].body.user.id = Str(u)
                  /\ resp'[p].body.user.email = users[u].email
                  /\ resp'[p].body.token.claims.sub = Str(u)
                  /\ users' = users
                  /\ nextId' = nextId]_vars

\* C5 witness: the call returned the user with the google_id while another
\* user holds the identity's email.
C5_FoundWhileEmailIsAnothers ==
    \E p \in Procs :
        /\ pc[p] = "done" /\ GoogleCall(p) /\ branch[p] = "found_by_google_id"
        /\ \E u, w \in DOMAIN users :
              /\ u # w
              /\ users[u].google_id = GoogleDataOf(p).google_id
              /\ users[w].email = GoogleDataOf(p).email
              /\ resp[p].body.user.id = Str(u)

\* C6: when no user matches the identity by google_id or by email the call
\* creates exactly one user, with the identity's google_id, email, name and
\* avatar, role STUDENT and no password hash, and returns it.
C6_CreateNewUser ==
    (pc[1] = "done" /\ GoogleCall(1))
        => LET d == GoogleDataOf(1)
           IN  (WithGoogleId(pre[1], d.google_id) = {} /\ WithEmail(pre[1], d.email) = {})
                 => \E id \in DOMAIN users \ DOMAIN pre[1] :
                       /\ DOMAIN users = DOMAIN pre[1] \cup {id}
                       /\ \A i \in DOMAIN pre[1] : users[i] = pre[1][i]
                       /\ users[id] = [id |-> id, google_id |-> d.google_id,
                                       email |-> d.email, name |-> d.name,
                                       avatar |-> d.avatar, role |-> "STUDENT",
                                       hashed_password |-> <<>>,
                                       department |-> None]
                       /\ AnsweredWithUser(resp[1], users[id])

\* C6 witness: a call that matched nobody has returned, beside an older user.
C6_CreatedBesideAnother ==
    /\ pc[1] = "done" /\ GoogleCall(1) /\ branch[1] = "created"
    /\ pre[1] # <<>>
    /\ WithGoogleId(pre[1], GoogleDataOf(1).google_id) = {}
    /\ WithEmail(pre[1], GoogleDataOf(1).email) = {}

\* The three ways a local login fails, read from the table the login read.
NoSuchEmail(us, r) == \A i \in DOMAIN us : us[i].email # r.email
FederationOnly(us, r) ==
    \E i \in DOMAIN us : us[i].email = r.email /\ us[i].hashed_password = <<>>
WrongPassword(us, r) ==
    \E i \in DOMAIN us :
        /\ us[i].email = r.email
        /\ us[i].hashed_password # <<>>
        /\ us[i].hashed_password[1][3] # r.password

\* C7: a local login answers the same status and the same message when the
\* email does not exist, when the user has no password hash and when the
\* password is wrong, and issues no token in any of them.
C7_UniformLoginFailure ==
    [][\A p \in Procs :
          (/\ pc[p] = "idle" /\ pc'[p] # "idle" /\ req'[p].op = "login"
           /\ (\/ NoSuchEmail(users, req'[p].request)
               \/ FederationOnly(users, req'[p].request)
               \/ WrongPassword(users, req'[p].request)))
             => /\ pc'[p] = "done"
                /\ resp'[p] = [kind |-> "HTTPException", status_code |-> 401,
                               detail |-> "Invalid email or password"]]_vars

\* C7 witness: two logins have been answered alike, one for a
\* federation-only account and one for an email nobody has.
C7_TwoCausesAnswered ==
    \E p, q \in Procs :
        /\ pc[p] = "done" /\ req[p].op = "login"
        /\ FederationOnly(users, req[p].request)
        /\ pc[q] = "done" /\ req[q].op = "login"
        /\ NoSuchEmail(users, req[q].request)
        /\ resp[p] = resp[q]

\* The last decode_token call was given the very token last issued.
DecodedIssued == decoded.called /\ decoded.token = issued.token

\* C8: for claims with a subject and a ttl > 0, decoding the issued token
\* before its expiration time returns a payload with the original subject.
C8_RoundTripSubject ==
    (/\ DecodedIssued
     /\ "sub" \in DOMAIN issued.data
     /\ issued.delta # <<>> /\ issued.delta[1] > 0
     /\ decoded.at < issued.at + issued.delta[1])
        => /\ decoded.payload # <<>>
           /\ decoded.payload[1].sub = issued.data.sub

\* C8 witness: a token was decoded after time had passed and before its
\* expiration time.
C8_DecodedInTime ==
    /\ DecodedIssued
    /\ "sub" \in DOMAIN issued.data
    /\ issued.delta # <<>> /\ issued.delta[1] > 0
    /\ decoded.at > issued.at
    /\ decoded.at < issued.at + issued.delta[1]
    /\ decoded.payload # <<>>

\* C9: a token whose expiration time is not after the current time fails
\* verification: once the clock has reached the expiration that
\* create_access_token computed, decode_token returns None.
C9_ExpiredWhenReached ==
    (DecodedIssued /\ decoded.at >= issued.expire) => decoded.payload = <<>>

\* What decode_token does do with the token last issued: it returns None
\* exactly when the current time, in whole seconds, is past the expiration
\* claim, so a token is still accepted during its expiration second, and a
\* token issued with a ttl of -1 second is never accepted.
ExpiredWhenPast ==
    DecodedIssued
        => /\ decoded.payload = <<>>
                <=> decoded.at \div TicksPerSecond > decoded.token.claims.exp
           /\ issued.delta = <<0 - TicksPerSecond>> => decoded.payload = <<>>

\* The token issued with a ttl of -1 second was refused at once.
MinusOneSecondRefused ==
    /\ DecodedIssued
    /\ issued.delta = <<0 - TicksPerSecond>>
    /\ decoded.at = issued.at
    /\ decoded.payload = <<>>

\* C10: create_access_token sets the expiration to the current time plus the
\* ttl for every ttl supplied, a ttl of zero included, and uses the
\* configured default only when none is supplied.
C10_ExpireIsNowPlusTtl ==
    issued.called
        => issued.expire = issued.at + (IF issued.delta = <<>>
                                        THEN ACCESS_TOKEN_EXPIRE_MINUTES * 60 * TicksPerSecond
                                        ELSE issued.delta[1])

\* C11: decode_token returns None and raises nothing for every token that
\* does not parse and for every token signed with a key other than the
\* configured one, also when that token is well formed and unexpired.
C11_InvalidTokenIsNone ==
    (/\ decoded.called
     /\ (\/ ~decoded.token.wellformed
         \/ decoded.token.sig # <<"secret_key", decoded.token.alg,
                                  decoded.token.claims>>))
        => decoded.payload = <<>> /\ decoded.raised = "None"

\* C11 witness: a well-formed, unexpired token signed with another key was
\* decoded and refused.
C11_OtherKeyRefused ==
    /\ decoded.called
    /\ decoded.token.wellformed
    /\ decoded.token.sig = <<"other_key", decoded.token.alg, decoded.token.claims>>
    /\ decoded.token.claims.exp > decoded.at \div TicksPerSecond
    /\ decoded.payload = <<>>

\* A bearer token that verifies at the current time: it parses, is signed
\* with the configured key and algorithm, and has not expired.
ValidToken(token) ==
    /\ token.wellformed
    /\ token.alg = "HS256"
    /\ token.sig = <<"secret_key", "HS256", token.claims>>
    /\ token.claims.exp >= now \div TicksPerSecond

\* The token names the user id i: its subject is the decimal form of i.
Names(token, i) == "sub" \in DOMAIN token.claims /\ token.claims.sub = Str(i)

\* The response is the unauthenticated outcome, the forbidden outcome.
Unauthenticated(r) == r.kind = "HTTPException" /\ r.status_code = 401
Forbidden(r) == r.kind = "HTTPException" /\ r.status_code = 403

\* C12: get_current_user answers 401 and gives no user when the token is
\* invalid or expired, when the payload has no subject and when the subject
\* names an id that is not in the table; it gives a user only for a valid
\* token whose subject names an existing id, and then the user of that id.
C12_CurrentUserOrUnauthenticated ==
    (pc[1] = "done" /\ req[1].op = "get_me")
        => LET token == req[1].token
           IN  /\ (\/ ~ValidToken(token)
                   \/ "sub" \notin DOMAIN token.claims
                   \/ \E i \in 1..nextId : Names(token, i) /\ i \notin DOMAIN users)
                     => Unauthenticated(resp[1]) /\ loc[1] = <<>>
               /\ loc[1] # <<>>
                     => /\ ValidToken(token)
                        /\ \E i \in DOMAIN users :
                              /\ Names(token, i)
                              /\ loc[1] = <<users[i]>>
                              /\ resp[1].kind = "returned"
                              /\ resp[1].body.id = token.claims.sub
                              /\ resp[1].body.email = users[i].email
               /\ (ValidToken(token) /\ \E i \in DOMAIN users : Names(token, i))
                     => loc[1] # <<>>

\* C12 witness: a valid token that names an id not in the table, while the
\* table has a user, was answered 401.
C12_ValidTokenOfNobody ==
    /\ pc[1] = "done" /\ req[1].op = "get_me"
    /\ ValidToken(req[1].token)
    /\ users # <<>>
    /\ \E i \in 1..nextId : Names(req[1].token, i) /\ i \notin DOMAIN users
    /\ Unauthenticated(resp[1])

\* C13: get_current_user given a valid, unexpired token whose subject is not
\* a number answers with a rejection of its own (401), not with an unhandled
\* error, and gives no user.
C13_UnparseableSubjectRejected ==
    (/\ pc[1] = "done" /\ req[1].op = "get_me"
     /\ ValidToken(req[1].token)
     /\ "sub" \in DOMAIN req[1].token.claims
     /\ \E k \in 1..Len(req[1].token.claims.sub) :
           req[1].token.claims.sub[k] \notin {"0", "1", "2", "3", "4", "5", "6", "7", "8", "9"})
        => Unauthenticated(resp[1]) /\ loc[1] = <<>>

\* The user a gated request resolved to: the ids the valid token names.
Resolved(token) ==
    IF ValidToken(token) THEN {i \in DOMAIN users : Names(token, i)} ELSE {}

\* C14: the role check gives the route the very user when the user's role is
\* among the allowed roles and answers 403 otherwise; a STUDENT against
\* (ADMIN) is forbidden, an ADMIN against (ADMIN) is passed; and require_admin
\* passes and forbids the same users as require_roles(ADMIN).
C14_RoleCheck ==
    /\ (pc[1] = "done" /\ req[1].op = "teachers_only")
          => \A i \in Resolved(req[1].token) :
                LET allowed == {req[1].allowed_roles[k] :
                                  k \in 1..Len(req[1].allowed_roles)}
                IN  IF users[i].role \in allowed
                    THEN loc[1] = <<users[i]>> /\ resp[1].kind = "returned"
                    ELSE loc[1] = <<>> /\ Forbidden(resp[1])
    /\ \A i \in DOMAIN users :
          LET a == require_admin(users[i])
              r == role_checker(<<"ADMIN">>, users[i])
          IN  /\ a.kind = r.kind
              /\ a.kind = "value" <=> users[i].role = "ADMIN"
              /\ a.kind = "value" => a.value = users[i] /\ r.value = users[i]
              /\ a.kind # "value" => Forbidden(a) /\ Forbidden(r)

\* C14 witness: a STUDENT asked for a route that allows (ADMIN) and was
\* answered 403.
C14_StudentForbidden ==
    /\ pc[1] = "done" /\ req[1].op = "teachers_only"
    /\ req[1].allowed_roles = <<"ADMIN">>
    /\ \E i \in Resolved(req[1].token) : users[i].role = "STUDENT"
    /\ Forbidden(resp[1])

\* The roles a gated request allows.
Allows(r) ==
    IF r.op = "list_users" THEN {"ADMIN"}
    ELSE {r.allowed_roles[k] : k \in 1..Len(r.allowed_roles)}

\* C15: on a role-gated route a token that does not verify, or that names no
\* existing user, is answered 401 and never 403; 403 is answered only to a
\* token that resolved to an existing user whose role is not allowed.
C15_AuthenticationFirst ==
    (req[1].op \in {"list_users", "teachers_only"} /\ pc[1] \in {"done", "list"})
        => LET token == req[1].token
           IN  /\ (\/ ~ValidToken(token)
                   \/ "sub" \notin DOMAIN token.claims
                   \/ \E i \in 1..nextId : Names(token, i) /\ i \notin DOMAIN users)
                     => pc[1] = "done" /\ Unauthenticated(resp[1])
               /\ Resolved(token) = {} => ~Forbidden(resp[1])
               /\ Forbidden(resp[1])
                     => \E i \in Resolved(token) : users[i].role \notin Allows(req[1])

\* C15 witness: a token signed with another key that names an ADMIN was
\* answered 401 on the admin-only route.
C15_ForgedAdminUnauthenticated ==
    /\ pc[1] = "done" /\ req[1].op = "list_users"
    /\ ~ValidToken(req[1].token)
    /\ \E i \in DOMAIN users : Names(req[1].token, i) /\ users[i].role = "ADMIN"
    /\ Unauthenticated(resp[1])

\* Record `r` is a registration of a new email that gave no role (the body
\* then has the default, STUDENT) and was answered 201, and record `l` is the
\* login with the same credentials that came right after it.
RegisteredThenLogin(r, l) ==
    /\ r.req.op = "register" /\ r.resp.kind = "returned"
    /\ r.resp.status_code = 201
    /\ r.req.user_data.role = "STUDENT"
    /\ l.req.op = "login"
    /\ l.req.request.email = r.req.user_data.email
    /\ l.req.request.password = r.req.user_data.password

\* The login a gated request follows: the request before it, or the one
\* before a GET /me made with the same token.
LoginBefore ==
    IF prev.req.op = "get_me" /\ prev.req.token = req[1].token
    THEN prev.before ELSE prev

\* C16: a login that follows the registration of a new email, with the same
\* credentials and no role given, returns a token; GET /me with that token
\* returns the user with that email, role STUDENT and the id that is the
\* token's subject; the admin-only route with that token answers 403.
C16_EndToEnd ==
    /\ (/\ pc[1] = "done" /\ req[1].op = "login"
        /\ RegisteredThenLogin(prev, [req |-> req[1]]))
          => /\ resp[1].kind = "returned"
             /\ resp[1].body.token.claims.sub = prev.resp.body.id
             /\ resp[1].body.token \in BearerTokens
    /\ (/\ pc[1] = "done" /\ req[1].op \in {"get_me", "list_users"}
        /\ "before" \in DOMAIN LoginBefore
        /\ RegisteredThenLogin(LoginBefore.before, LoginBefore)
        /\ LoginBefore.resp.kind = "returned"
        /\ req[1].token = LoginBefore.resp.body.token)
          => /\ req[1].op = "get_me"
                  => /\ resp[1].kind = "returned"
                     /\ resp[1].body.email = LoginBefore.req.request.email
                     /\ resp[1].body.role = "STUDENT"
                     /\ resp[1].body.id = req[1].token.claims.sub
                     /\ resp[1].body.id = LoginBefore.before.resp.body.id
             /\ req[1].op = "list_users" => Forbidden(resp[1])

\* C16 witness: register, login, then the admin-only route with the token
\* of the login, answered 403.
C16_StudentTokenForbidden ==
    /\ pc[1] = "done" /\ req[1].op = "list_users"
    /\ "before" \in DOMAIN prev
    /\ RegisteredThenLogin(prev.before, prev)
    /\ prev.resp.kind = "returned"
    /\ req[1].token = prev.resp.body.token
    /\ Forbidden(resp[1])

\* C17: a registration whose email belongs to a user is rejected and leaves
\* the table as it is, no row added and no row changed; of two registrations
\* of one new email that run together one adds its row and the other adds
\* none, so that exactly one user has the email afterwards.
C17_DuplicateRegistrationRejected ==
    [][\A p \in Procs :
          /\ (/\ pc[p] = "idle" /\ pc'[p] # "idle" /\ req'[p].op = "register"
              /\ WithEmail(users, req'[p].user_data.email) # {})
                => /\ pc'[p] = "done"
                   /\ resp'[p] = [kind |-> "HTTPException", status_code |-> 400,
                                  detail |-> "Email already registered"]
                   /\ users' = users
          /\ (/\ pc[p] = "insert" /\ pc'[p] = "done"
              /\ WithEmail(users, req[p].user_data.email) # {})
                => /\ resp'[p].kind # "returned"
                   /\ users' = users
          /\ (pc[p] # "done" /\ pc'[p] = "done" /\ req'[p].op = "register")
                => Cardinality(WithEmail(users', req'[p].user_data.email)) = 1]_vars

\* C17 witness: two registrations of one new email both passed the check;
\* one was answered 201, the other was refused, and one user has the email.
C17_RegistrationRaceLost ==
    \E p, q \in Procs :
        /\ pc[p] = "done" /\ req[p].op = "register" /\ branch[p] = "registered"
        /\ pc[q] = "done" /\ req[q].op = "register" /\ branch[q] = "conflict"
        /\ req[p].user_data.email = req[q].user_data.email
        /\ Cardinality(WithEmail(users, req[p].user_data.email)) = 1

\* An email with its letters in lower case.
Lower(e) == IF e = "A@x.edu" THEN "a@x.edu" ELSE e

\* C18: email is a case-insensitive key: registration and federated login
\* with a case variant of a user's email never make a second account, so no
\* two users have emails that differ only in letter case.
C18_EmailCaseInsensitive ==
    \A i, j \in DOMAIN users :
        i # j => Lower(users[i].email) # Lower(users[j].email)

\* The idToken passes Google's verification for audience a.
VerifiesFor(token, a) == token.signed /\ ~token.expired /\ token.aud = a

\* The audiences the configuration accepts.
Audiences ==
    {"111-web.apps.googleusercontent.com", "222-ios.apps.googleusercontent.com",
     "333-android.apps.googleusercontent.com"}

\* C19: verify_google_token accepts an idToken as soon as one configured
\* audience verifies it, whichever of them it is, and fails only when every
\* configured audience has failed, with a GoogleAuthError that carries the
\* reason of the last failure.
C19_AnyConfiguredAudience ==
    (pc[1] # "idle" /\ req[1].op = "google_auth" /\ "token" \in DOMAIN req[1].idToken)
        => LET token == req[1].idToken.token
           IN  /\ (/\ \E a \in Audiences : VerifiesFor(token, a)
                   /\ token.iss = "https://accounts.google.com")
                     => req[1].idToken.ok
               /\ (\A a \in Audiences : ~VerifiesFor(token, a))
                     => /\ ~req[1].idToken.ok
                        /\ "error" \in DOMAIN req[1].idToken
                        /\ req[1].idToken.error[1] = "Invalid token: "

\* C20: a federated login that fails verification is answered 401 with the
\* same status and message whatever the cause (signature, audience, expiry,
\* issuer), changes no user and returns no token.
C20_GenericFederatedFailure ==
    (/\ pc[1] = "done" /\ req[1].op = "google_auth"
     /\ "token" \in DOMAIN req[1].idToken
     /\ (\/ \A a \in Audiences : ~VerifiesFor(req[1].idToken.token, a)
         \/ req[1].idToken.token.iss # "https://accounts.google.com"))
        => /\ Unauthenticated(resp[1])
           /\ users = pre[1]
           /\ (/\ prev.req.op = "google_auth"
               /\ ~prev.req.idToken.ok) => prev.resp = resp[1]

\* The slot's handler answers a request of kind `op` in this step.
Answers(op) == pc[1] # "done" /\ pc'[1] = "done" /\ req'[1].op = op

\* The instant a token expires, in ticks: its exp claim counts seconds.
ExpiresAt(token) == token.claims.exp * TicksPerSecond

\* C21: a token a login returned for a user resolves, in GET /me, to the
\* user with that id whenever it is presented before its expiration,
\* whatever requests were served since the login.
C21_NoRevocation ==
    [][\A h \in held :
          (/\ Answers("get_me")
           /\ req'[1].token = h.token
           /\ now < ExpiresAt(h.token))
             => /\ resp'[1].kind = "returned"
                /\ resp'[1].body.id = h.id]_vars

\* C21 witness: GET /me returned the user a held token names, one tick
\* before the token's expiration, after that user's profile was updated.
C21_ResolvedAfterUpdate ==
    /\ prev.req.op = "get_me" /\ prev.resp.kind = "returned"
    /\ \E h \in held :
          /\ prev.req.token = h.token
          /\ prev.resp.body.id = h.id
          /\ now = ExpiresAt(h.token) - 1
    /\ prev.resp.body.name = "Bea"
    /\ pc[1] = "idle"

\* The rows of table `us` that table `vs` holds too, and the ones it adds.
Kept(us, vs) == DOMAIN us \cap DOMAIN vs
Added(us, vs) == DOMAIN vs \ DOMAIN us

\* The id of the user whose token the request of the slot carries.
TokenUser(r) == {i \in DOMAIN users : \E h \in held : h.token = r.token /\ h.id = Str(i)}

\* C23: no step removes a user or changes a user's id, email, role or
\* password hash; a password hash is written only in the row a registration
\* adds, and a google_id only by a federated login; update_profile adds no
\* row, leaves every other user's row as it is, and changes of the current
\* user's row only the name and the department that the body gives, to the
\* values it gives.
C23_FieldOwnership ==
    [][/\ DOMAIN users \subseteq DOMAIN users'
       /\ \A i \in Kept(users, users') :
             /\ users'[i].id = users[i].id
             /\ users'[i].email = users[i].email
             /\ users'[i].role = users[i].role
             /\ users'[i].hashed_password = users[i].hashed_password
             /\ users'[i].google_id # users[i].google_id
                   => req[1].op = "google_auth"
       /\ \A i \in Added(users, users') :
             /\ ~IsNone(users'[i].hashed_password) => req[1].op = "register"
             /\ users'[i].google_id # None => req[1].op = "google_auth"
       /\ req[1].op = "update_profile"
             => /\ DOMAIN users' = DOMAIN users
                /\ \A i \in DOMAIN users :
                      /\ i \notin TokenUser(req[1]) => users'[i] = users[i]
                      /\ \A c \in DOMAIN users[i] \ {"name", "department"} :
                            users'[i][c] = users[i][c]
                      /\ \A c \in {"name", "department"} :
                            \/ users'[i][c] = users[i][c]
                            \/ /\ req[1].updates[c] # None
                               /\ users'[i][c] = req[1].updates[c]
       /\ (Answers("update_profile") /\ resp'[1].kind = "returned")
             => \A i \in TokenUser(req[1]), c \in {"name", "department"} :
                   users'[i][c] = IF req[1].updates[c] # None
                                  THEN req[1].updates[c]
                                  ELSE users[i][c]]_vars

\* C23 witness: a profile update that gave a department and no name was
\* answered: the user has the department and the name it had.
C23_DepartmentOnly ==
    /\ pc[1] = "done" /\ req[1].op = "update_profile"
    /\ req[1].updates = [name |-> None, department |-> "Math"]
    /\ resp[1].kind = "returned"
    /\ \E i \in TokenUser(req[1]) :
          /\ users[i].department = "Math"
          /\ pre[1][i].department = None
          /\ users[i].name = pre[1][i].name
          /\ users[i].name # None

\* C24: every user has a password hash or a google_id.
C24_AuthenticationPath ==
    \A i \in DOMAIN users :
        ~IsNone(users[i].hashed_password) \/ users[i].google_id # None

\* C24 witness: a user with a password hash only beside a user with a
\* google_id only, after a profile update was answered.
C24_BothPaths ==
    /\ \E i \in DOMAIN users :
          ~IsNone(users[i].hashed_password) /\ users[i].google_id = None
    /\ \E i \in DOMAIN users :
          IsNone(users[i].hashed_password) /\ users[i].google_id # None
    /\ prev.req.op = "update_profile" /\ prev.resp.kind = "returned"

GatedReads == {"get_me", "list_users", "teachers_only"}

\* C22: a request to a route behind get_current_user, require_admin or
\* require_roles leaves the users table as it is in every step, whether it
\* passes the gate or is refused by it (401, 403 or an unhandled error).
C22_GateReadOnly ==
    [][(req[1].op \in GatedReads \/ req'[1].op \in GatedReads)
          => users' = users /\ nextId' = nextId]_vars

\* C22 witness: with users in the table, the admin gate refused a user that
\* is no admin, and the table is as it was when the request began.
C22_RefusedUntouched ==
    /\ pc[1] = "done" /\ req[1].op = "list_users"
    /\ Forbidden(resp[1])
    /\ users # <<>> /\ users = pre[1]

\* The role a registration asks for: the body's, STUDENT when it has none.
RoleAsked(body) == IF "role" \in DOMAIN body THEN body.role ELSE "STUDENT"

\* Record l is a login that returned a token, with the credentials of the
\* registration r, which was answered 201.
RegisteredAndLoggedIn(r, l) ==
    /\ r.req.op = "register" /\ r.resp.kind = "returned"
    /\ r.resp.status_code = 201
    /\ l.req.op = "login" /\ l.resp.kind = "returned"
    /\ l.req.request.email = r.req.user_data.body.email
    /\ l.req.request.password = r.req.user_data.body.password

\* C26: a registration of an email nobody has, sent without a token, is
\* answered 201 and stores the user with the role its body gives, STUDENT
\* when it gives none; with the token of that user's login, a route behind
\* require_roles answers 200 when the role is among the allowed ones and 403
\* otherwise, and the admin-only route answers 403 unless the role is ADMIN.
C26_RegisteredRole ==
    /\ (/\ pc[1] = "done" /\ req[1].op = "register"
        /\ WithEmail(pre[1], req[1].user_data.body.email) = {})
          => /\ "token" \notin DOMAIN req[1]
             /\ resp[1].kind = "returned" /\ resp[1].status_code = 201
             /\ resp[1].body.role = RoleAsked(req[1].user_data.body)
             /\ \E i \in DOMAIN users \ DOMAIN pre[1] :
                   /\ users[i].email = req[1].user_data.body.email
                   /\ users[i].role = RoleAsked(req[1].user_data.body)
    /\ (/\ pc[1] = "done" /\ req[1].op \in {"teachers_only", "list_users"}
        /\ "before" \in DOMAIN prev
        /\ RegisteredAndLoggedIn(prev.before, prev)
        /\ req[1].token = prev.resp.body.token)
          => LET role == RoleAsked(prev.before.req.user_data.body)
                 allowed == IF req[1].op = "list_users" THEN {"ADMIN"}
                            ELSE {req[1].allowed_roles[k] :
                                     k \in 1..Len(req[1].allowed_roles)}
             IN  /\ role \in allowed
                     => resp[1].kind = "returned" /\ resp[1].status_code = 200
                 /\ role \notin allowed => Forbidden(resp[1])

\* C26 witness: a registration with role TEACHER, the login of that user,
\* and a route for teachers and students answered 200 with the login's token.
C26_TeacherPasses ==
    /\ pc[1] = "done" /\ req[1].op = "teachers_only"
    /\ req[1].allowed_roles = <<"TEACHER", "STUDENT">>
    /\ "before" \in DOMAIN prev
    /\ RegisteredAndLoggedIn(prev.before, prev)
    /\ "role" \in DOMAIN prev.before.req.user_data.body
    /\ RoleAsked(prev.before.req.user_data.body) = "TEACHER"
    /\ req[1].token = prev.resp.body.token
    /\ resp[1].kind = "returned"

\* Slot p's handler answers a request of kind `op` in this step.
AnswersIn(p, op) == pc[p] # "done" /\ pc'[p] = "done" /\ req'[p].op = op

\* The votes of table `vs` on poll i by user u, whatever their ids.
VotesOf(vs, i, u) ==
    {v \in DOMAIN vs : vs[v].poll_id = i /\ vs[v].user_id = u}

\* C27: after every step there is at most one vote per poll and user; no
\* step changes or removes a vote; and a vote request answered while the
\* user its token names has a vote on the poll is not accepted and records
\* nothing.
C27_OneVotePerUser ==
    [][/\ \A i \in DOMAIN polls', u \in DOMAIN users :
             Cardinality(VotesOf(poll_votes', i, u)) <= 1
       /\ \A v \in DOMAIN poll_votes :
             v \in DOMAIN poll_votes' /\ poll_votes'[v] = poll_votes[v]
       /\ \A p \in Procs, u \in DOMAIN users :
             (/\ AnswersIn(p, "vote_on_poll")
              /\ Names(req'[p].token, u)
              /\ VotesOf(poll_votes, req'[p].poll_id, u) # {})
                => /\ resp'[p].kind \in {"HTTPException", "unhandled"}
                   /\ poll_votes' = poll_votes]_vars

\* C27 witness: two votes of one user on one poll were served together and
\* both passed the check; one was recorded and the other refused by the
\* constraint, and the user has one vote on the poll.
C27_VoteRaceLost ==
    \E p, q \in Procs, u \in DOMAIN users :
        /\ p # q /\ pc[p] = "done" /\ pc[q] = "done"
        /\ req[p].op = "vote_on_poll" /\ req[q].op = "vote_on_poll"
        /\ req[p].poll_id = req[q].poll_id
        /\ Names(req[p].token, u) /\ Names(req[q].token, u)
        /\ resp[p].kind = "returned"
        /\ resp[q].kind = "unhandled" /\ resp[q].exception = "IntegrityError"
        /\ Cardinality(VotesOf(poll_votes, req[p].poll_id, u)) = 1

\* The option ids of poll row `poll`.
OptionIds(poll) == {poll.options.options[k].id : k \in DOMAIN poll.options.options}

\* C28: a poll that is closed stays closed and keeps exactly the votes it
\* has; a vote on it and a close of it whose handler reads the poll while
\* it is closed are rejected there and change nothing; and every vote names
\* an option of its poll.
C28_ClosedPollFrozen ==
    [][/\ \A i \in DOMAIN polls :
             ~polls[i].is_active
                => /\ i \in DOMAIN polls' /\ ~polls'[i].is_active
                   /\ VotesOn(poll_votes', i) = VotesOn(poll_votes, i)
                   /\ \A v \in VotesOn(poll_votes, i) :
                         poll_votes'[v] = poll_votes[v]
                   /\ \A p \in Procs :
                         (/\ pc[p] \in {"vote_poll", "close_poll"}
                          /\ pc'[p] # pc[p]
                          /\ req[p].poll_id = i)
                            => /\ pc'[p] = "done"
                               /\ resp'[p].kind = "HTTPException"
                               /\ resp'[p].status_code = 400
                               /\ polls' = polls /\ poll_votes' = poll_votes
       /\ \A v \in DOMAIN poll_votes' :
             /\ poll_votes'[v].poll_id \in DOMAIN polls'
             /\ poll_votes'[v].option_id
                   \in OptionIds(polls'[poll_votes'[v].poll_id])]_vars

\* The users the token of slot p's request names.
Caller(p) == {u \in DOMAIN users : Names(req[p].token, u)}

\* C29: no step removes a notification or makes a read one unread; a
\* notification changes only in a step of mark_as_read or mark_all_as_read
\* made by the user it belongs to, and then only in that is_read becomes
\* true; mark_as_read on another user's notification is answered 404 and
\* changes nothing; and mark_all_as_read leaves all of the caller's
\* notifications read.
C29_NotificationsIsolated ==
    [][/\ \A n \in DOMAIN notifications :
             /\ n \in DOMAIN notifications'
             /\ notifications[n].is_read => notifications'[n].is_read
             /\ notifications'[n] # notifications[n]
                   => \E p \in Procs :
                         /\ pc'[p] # pc[p]
                         /\ req[p].op \in {"mark_as_read", "mark_all_as_read"}
                         /\ notifications[n].user_id \in Caller(p)
                         /\ notifications'[n]
                               = [notifications[n] EXCEPT !.is_read = TRUE]
       /\ \A p \in Procs :
             (/\ AnswersIn(p, "mark_as_read") /\ pc[p] # "idle"
              /\ req[p].notification_id \in DOMAIN notifications
              /\ notifications[req[p].notification_id].user_id \notin Caller(p))
                => /\ resp'[p] = [kind |-> "HTTPException", status_code |-> 404,
                                  detail |-> "Notification not found"]
                   /\ notifications' = notifications
       /\ \A p \in Procs :
             (AnswersIn(p, "mark_all_as_read") /\ resp'[p].kind = "returned")
                => \A n \in DOMAIN notifications :
                      notifications[n].user_id \in Caller(p)
                         => notifications'[n].is_read]_vars

\* C29 witness: a user asked to mark another user's unread notification as
\* read and was answered 404, the notification still unread, while one of
\* its own notifications is read.
C29_OthersNotFound ==
    \E p \in Procs, n \in DOMAIN notifications, m \in DOMAIN notifications :
        /\ pc[p] = "done" /\ req[p].op = "mark_as_read"
        /\ req[p].notification_id = n
        /\ notifications[n].user_id \notin Caller(p)
        /\ ~notifications[n].is_read
        /\ resp[p].kind = "HTTPException" /\ resp[p].status_code = 404
        /\ notifications[m].user_id \in Caller(p)
        /\ notifications[m].is_read

\* The operations behind the admin gate.
AdminOps ==
    {"create_schedule", "update_schedule", "delete_schedule", "create_poll",
     "close_poll", "delete_document", "send_notification",
     "broadcast_notification", "list_users"}

\* The token is valid and names a user whose role is ADMIN.
AdminToken(token) ==
    /\ ValidToken(token)
    /\ \E u \in DOMAIN users : Names(token, u) /\ users[u].role = "ADMIN"

\* The request the step of slot 1 belongs to.
Served == IF pc[1] = "idle" THEN req'[1] ELSE req[1]

\* C25: a step that changes the schedules or the polls, removes a document,
\* or adds or changes a notification of a user other than the caller
\* belongs to a request whose token is valid and names an ADMIN; a request
\* to an admin-only operation with any other token is answered at the gate,
\* not served: 401 for an invalid token, 403 for the valid token of a user
\* who is no ADMIN.
C25_AdminGate ==
    [][/\ (\/ schedules' # schedules
           \/ polls' # polls
           \/ \E d \in DOMAIN documents : d \notin DOMAIN documents'
           \/ \E n \in DOMAIN notifications' :
                 /\ n \in DOMAIN notifications => notifications'[n] # notifications[n]
                 /\ ~Names(Served.token, notifications'[n].user_id))
             => AdminToken(Served.token)
       /\ (/\ pc[1] = "idle" /\ pc'[1] # "idle"
           /\ Served.op \in AdminOps
           /\ ~AdminToken(Served.token))
             => /\ pc'[1] = "done"
                /\ resp'[1].kind \in {"HTTPException", "unhandled"}
                /\ ~ValidToken(Served.token) => Unauthenticated(resp'[1])
                /\ (/\ ValidToken(Served.token)
                    /\ \E u \in DOMAIN users : Names(Served.token, u))
                      => Forbidden(resp'[1])
                /\ UNCHANGED <<dbVars, contentVars>>]_vars

\* C25 witness: with a schedule, a document and a poll there, the student's
\* request to delete the document was answered 403 and the document is
\* still there.
C25_StudentRefused ==
    /\ pc[1] = "done" /\ req[1].op = "delete_document"
    /\ ValidToken(req[1].token)
    /\ \E u \in DOMAIN users : Names(req[1].token, u) /\ users[u].role = "STUDENT"
    /\ Forbidden(resp[1])
    /\ req[1].document_id \in DOMAIN documents
    /\ (schedules # <<>> \/ polls # <<>>)
====
